---- MODULE Spec2Model ----
(***************************************************************************)
(* Shared mempool of the node: ingress pipeline, ACK generation, broadcast  *)
(* scheduler and peer state, modelled from                                  *)
(* mempool/src/shared_mempool/tasks.rs.  The core pool (core_mempool) and   *)
(* the peer manager (shared_mempool/peer_manager) are consumed by tasks.rs  *)
(* and are modelled at the level of their contract.                         *)
(***************************************************************************)
EXTENDS Integers, Sequences, FiniteSets, TLC

VARIABLES
    pool,        \* CoreMempool: the set of live pool entries
    next_tid,    \* CoreMempool: the timeline counter (next timeline id)
    db,          \* account storage: sender -> committed sequence, NoAccount on a miss
    peers,       \* PeerManager: peer -> PeerSyncState
    scheduled,   \* FuturesUnordered<ScheduledBroadcast>: peer -> pending broadcasts
    ev,          \* the last handler that ran, its inputs and what it produced
    hist,        \* per peer: the last processed ACK's backoff, the last tick's failed batch
    config,      \* MempoolConfig: capacity, max_per_sender, shared_mempool_batch_size
    validator,   \* the VM validator in use: the on-chain config it was started from
    tasks,       \* tasks in flight: where each is in its handler, what it holds
    client       \* GRPCClient: the synchronous call in progress and its retries

vars == <<pool, next_tid, db, peers, scheduled, ev, hist, config, validator, tasks,
          client>>

----------------------------------------------------------------------------
(* Bounds of the model *)

MaxSeq == 1          \* sequence numbers of submitted transactions: 0..MaxSeq
MaxTid == 2          \* timeline ids above MaxTid are not assigned
MaxLen == 3          \* length of a result vector handed to gen_ack_response
MaxBatchIn == 2      \* transactions in one incoming peer broadcast

MempoolConfig(cap, per_sender, batch_size) ==
    [capacity |-> cap, max_per_sender |-> per_sender,
     shared_mempool_batch_size |-> batch_size]

Senders == {"A", "B"}
Peers == {"p1"}
NoAccount == -1
FirstTimelineId == 1   \* the first timeline id the pool assigns
NoTid == -1

----------------------------------------------------------------------------
(* Helpers on sequences *)

RECURSIVE SortedSeq(_)
SortedSeq(S) ==
    IF S = {} THEN <<>>
    ELSE LET m == CHOOSE x \in S : \A y \in S : x <= y
         IN  <<m>> \o SortedSeq(S \ {m})

Take(s, n) == IF Len(s) <= n THEN s ELSE SubSeq(s, 1, n)

Range(s) == {s[i] : i \in 1..Len(s)}

SeqsUpTo(S, n) == UNION {[1..k -> S] : k \in 0..n}

----------------------------------------------------------------------------
(* Status codes *)

MempoolStatusCode ==
    {"Accepted", "TooManyTransactions", "MempoolIsFull", "InvalidSeqNumber",
     "VmError", "InvalidUpdate", "UnknownStatus"}

SubmissionStatus(code, vm) == [code |-> code, vm |-> vm]

----------------------------------------------------------------------------
(* ACK generation *)

\* mutant: only a full pool asks for a retry
is_txn_retryable_full_only(result) == result.code = "MempoolIsFull"

is_txn_retryable(result) ==
    \/ result.code = "TooManyTransactions"
    \/ result.code = "MempoolIsFull"

\* mutant: every retryable result turns backoff on
sets_backoff_any_retry(result) ==
    result.code \in {"TooManyTransactions", "MempoolIsFull"}

\* line 281: the condition that turns the backoff flag on
sets_backoff(result) == result.code = "MempoolIsFull"

\* One pass over `results` (SubmissionStatusBundle vector), as the filter_map
\* closure does it: idx-1 is the closure's zero-based `idx`.
RECURSIVE ack_fold(_, _, _)
ack_fold(results, idx, acc) ==
    IF idx > Len(results) THEN acc
    ELSE LET submission_status == results[idx].status
             backoff == acc.backoff \/ sets_backoff(submission_status)
             retry == IF is_txn_retryable(submission_status)
                      THEN Append(acc.retry_txns, idx - 1)
                      ELSE acc.retry_txns
         IN  ack_fold(results, idx + 1, [backoff |-> backoff, retry_txns |-> retry])

gen_ack_response(request_id, results) ==
    LET r == ack_fold(results, 1, [backoff |-> FALSE, retry_txns |-> <<>>])
    IN  [request_id |-> request_id,
         retry_txns |-> r.retry_txns,
         backoff    |-> r.backoff]

----------------------------------------------------------------------------
(* Core pool (contract of core_mempool as tasks.rs consumes it)             *)
(* A pool entry: [sender, seq, exp, score, role, ready, tid].               *)

Find(P, s, q) == {e \in P : e.sender = s /\ e.seq = q}

TxnOf(e) == [sender |-> e.sender, seq |-> e.seq, exp |-> e.exp]

\* Chain extension: walk forward from sequence q of sender s, promoting
\* buffered NotReady entries and giving each the next timeline id.
\* mutant: only the entry that fills the gap becomes Ready
promote_first_only(P, ntid, s, q) ==
    LET es == {e \in Find(P, s, q) : ~e.ready} IN
    IF es = {} THEN [pool |-> P, next_tid |-> ntid]
    ELSE LET e == CHOOSE x \in es : TRUE IN
         [pool |-> (P \ {e}) \cup {[e EXCEPT !.ready = TRUE, !.tid = ntid]},
          next_tid |-> ntid + 1]

\* mutant: the id counter does not move on when an id is given out
RECURSIVE promote_same_id(_, _, _, _)
promote_same_id(P, ntid, s, q) ==
    LET es == Find(P, s, q) IN
    IF es = {} THEN [pool |-> P, next_tid |-> ntid]
    ELSE LET e == CHOOSE x \in es : TRUE IN
         IF e.ready THEN promote_same_id(P, ntid, s, q + 1)
         ELSE promote_same_id((P \ {e}) \cup {[e EXCEPT !.ready = TRUE, !.tid = ntid]},
                              ntid, s, q + 1)

RECURSIVE promote(_, _, _, _)
promote(P, ntid, s, q) ==
    LET es == Find(P, s, q) IN
    IF es = {} THEN [pool |-> P, next_tid |-> ntid]
    ELSE LET e == CHOOSE x \in es : TRUE IN
         IF e.ready THEN promote(P, ntid, s, q + 1)
         ELSE promote((P \ {e}) \cup {[e EXCEPT !.ready = TRUE, !.tid = ntid]},
                      ntid + 1, s, q + 1)

\* Entries that may be evicted from a full pool: not next-in-line (their
\* sender has a sequence gap below them) and not role-privileged.
Evictable(P) == {e \in P : ~e.ready /\ e.role = 0}

\* The lowest-ranked evictable entry (ties: lowest sender, highest sequence).
EvictionVictim(P) ==
    CHOOSE e \in Evictable(P) :
        \A f \in Evictable(P) :
            \/ e.score < f.score
            \/ /\ e.score = f.score
               /\ \/ e.sender = f.sender /\ e.seq >= f.seq
                  \/ e.sender # f.sender /\ e.sender = "A"

\* mutant: a pointer the pool already holds is admitted again
add_txn_again(P, ntid, txn, score, committed_seq, timeline_state, role) ==
    LET same == [status |-> "", pool |-> P, next_tid |-> ntid] IN
    IF txn.seq < committed_seq
    THEN [same EXCEPT !.status = "InvalidSeqNumber"]
    ELSE IF Cardinality({e \in P : e.sender = txn.sender}) >= config.max_per_sender
    THEN [same EXCEPT !.status = "TooManyTransactions"]
    ELSE IF Cardinality(P) >= config.capacity /\ Evictable(P) = {}
    THEN [same EXCEPT !.status = "MempoolIsFull"]
    ELSE LET P1 == IF Cardinality(P) >= config.capacity
                   THEN P \ {EvictionVictim(P)} ELSE P
             entry == [sender |-> txn.sender, seq |-> txn.seq, exp |-> txn.exp,
                       score |-> score, role |-> role,
                       ready |-> FALSE, tid |-> NoTid]
             r == promote(P1 \cup {entry}, ntid, txn.sender, committed_seq)
         IN  [status |-> "Accepted", pool |-> r.pool, next_tid |-> r.next_tid]

\* mutant: a full pool with nothing to evict takes the transaction all the same
add_txn_over_capacity(P, ntid, txn, score, committed_seq, timeline_state, role) ==
    LET same == [status |-> "", pool |-> P, next_tid |-> ntid] IN
    IF txn.seq < committed_seq
    THEN [same EXCEPT !.status = "InvalidSeqNumber"]
    ELSE IF Find(P, txn.sender, txn.seq) # {}
    THEN [same EXCEPT !.status = "InvalidUpdate"]
    ELSE IF Cardinality({e \in P : e.sender = txn.sender}) >= config.max_per_sender
    THEN [same EXCEPT !.status = "TooManyTransactions"]
    ELSE LET P1 == IF Cardinality(P) >= config.capacity /\ Evictable(P) # {}
                   THEN P \ {EvictionVictim(P)} ELSE P
             entry == [sender |-> txn.sender, seq |-> txn.seq, exp |-> txn.exp,
                       score |-> score, role |-> role,
                       ready |-> FALSE, tid |-> NoTid]
             r == promote(P1 \cup {entry}, ntid, txn.sender, committed_seq)
         IN  [status |-> "Accepted", pool |-> r.pool, next_tid |-> r.next_tid]

add_txn(P, ntid, txn, score, committed_seq, timeline_state, role) ==
    LET same == [status |-> "", pool |-> P, next_tid |-> ntid] IN
    IF txn.seq < committed_seq
    THEN [same EXCEPT !.status = "InvalidSeqNumber"]
    ELSE IF Find(P, txn.sender, txn.seq) # {}
    THEN [same EXCEPT !.status = "InvalidUpdate"]
    ELSE IF Cardinality({e \in P : e.sender = txn.sender}) >= config.max_per_sender
    THEN [same EXCEPT !.status = "TooManyTransactions"]
    ELSE IF Cardinality(P) >= config.capacity /\ Evictable(P) = {}
    THEN [same EXCEPT !.status = "MempoolIsFull"]
    ELSE LET P1 == IF Cardinality(P) >= config.capacity
                   THEN P \ {EvictionVictim(P)} ELSE P
             entry == [sender |-> txn.sender, seq |-> txn.seq, exp |-> txn.exp,
                       score |-> score, role |-> role,
                       ready |-> FALSE, tid |-> NoTid]
             r == promote(P1 \cup {entry}, ntid, txn.sender, committed_seq)
         IN  [status |-> "Accepted", pool |-> r.pool, next_tid |-> r.next_tid]

----------------------------------------------------------------------------
(* Ingress pipeline *)

\* get_account_sequence_number(db, sender): Ok(n), or an error on a miss
lookup_ok(d, sender) == d[sender] # NoAccount

\* lines 328-356: the transactions that go on to validation, each with the
\* committed sequence read and (for the record) its position in the input
\* mutant: every transaction goes on to validation
RECURSIVE prefilter_kept_all(_, _, _)
prefilter_kept_all(transactions, d, idx) ==
    IF idx > Len(transactions) THEN <<>>
    ELSE LET t == transactions[idx] IN
         <<[txn |-> t, sequence_number |-> d[t.sender], orig |-> idx - 1]>>
         \o prefilter_kept_all(transactions, d, idx + 1)

RECURSIVE prefilter_kept(_, _, _)
prefilter_kept(transactions, d, idx) ==
    IF idx > Len(transactions) THEN <<>>
    ELSE LET t == transactions[idx] IN
         (IF lookup_ok(d, t.sender) /\ t.seq >= d[t.sender]
          THEN <<[txn |-> t, sequence_number |-> d[t.sender], orig |-> idx - 1]>>
          ELSE <<>>)
         \o prefilter_kept(transactions, d, idx + 1)

\* lines 336-352: the statuses pushed while filtering
RECURSIVE prefilter_statuses(_, _, _)
prefilter_statuses(transactions, d, idx) ==
    IF idx > Len(transactions) THEN <<>>
    ELSE LET t == transactions[idx] IN
         (IF lookup_ok(d, t.sender)
          THEN IF t.seq >= d[t.sender] THEN <<>>
               ELSE <<[txn |-> t, orig |-> idx - 1,
                       status |-> SubmissionStatus("VmError", "SEQUENCE_NUMBER_TOO_OLD")]>>
          ELSE <<[txn |-> t, orig |-> idx - 1,
                  status |-> SubmissionStatus("VmError", "RESOURCE_DOES_NOT_EXIST")]>>)
         \o prefilter_statuses(transactions, d, idx + 1)

\* lines 373-407: the section under the pool lock.  vals[orig + 1] is the
\* validator's answer for the transaction at input position orig:
\* [kind |-> "err"], [kind |-> "discard", status] or [kind |-> "ok", score, role].
\* mutant: the validator's governance role is not passed on to add_txn
RECURSIVE insert_validated_without_role(_, _, _, _, _)
insert_validated_without_role(kept, vals, timeline_state, idx, acc) ==
    IF idx > Len(kept) THEN acc
    ELSE LET k == kept[idx]
             v == vals[k.orig + 1]
         IN
         IF v.kind = "ok"
         THEN LET r == add_txn(acc.pool, acc.next_tid, k.txn, v.score,
                               k.sequence_number, timeline_state, 0)
              IN  insert_validated_without_role(kept, vals, timeline_state, idx + 1,
                      [statuses |-> Append(acc.statuses,
                                       [txn |-> k.txn, orig |-> k.orig,
                                        status |-> SubmissionStatus(r.status, "None")]),
                       pool |-> r.pool, next_tid |-> r.next_tid])
         ELSE IF v.kind = "discard"
         THEN insert_validated_without_role(kept, vals, timeline_state, idx + 1,
                  [acc EXCEPT !.statuses =
                       Append(@, [txn |-> k.txn, orig |-> k.orig,
                                  status |-> SubmissionStatus("VmError", v.status)])])
         ELSE insert_validated_without_role(kept, vals, timeline_state, idx + 1, acc)

RECURSIVE insert_validated(_, _, _, _, _)
insert_validated(kept, vals, timeline_state, idx, acc) ==
    IF idx > Len(kept) THEN acc
    ELSE LET k == kept[idx]
             v == vals[k.orig + 1]
         IN
         IF v.kind = "ok"
         THEN LET r == add_txn(acc.pool, acc.next_tid, k.txn, v.score,
                               k.sequence_number, timeline_state, v.role)
              IN  insert_validated(kept, vals, timeline_state, idx + 1,
                      [statuses |-> Append(acc.statuses,
                                       [txn |-> k.txn, orig |-> k.orig,
                                        status |-> SubmissionStatus(r.status, "None")]),
                       pool |-> r.pool, next_tid |-> r.next_tid])
         ELSE IF v.kind = "discard"
         THEN insert_validated(kept, vals, timeline_state, idx + 1,
                  [acc EXCEPT !.statuses =
                       Append(@, [txn |-> k.txn, orig |-> k.orig,
                                  status |-> SubmissionStatus("VmError", v.status)])])
         ELSE insert_validated(kept, vals, timeline_state, idx + 1, acc)

\* Pool reads and removals used by the broadcast and commit handlers

ReadyEntries(P) == {e \in P : e.ready}

EntryOfTid(P, id) == CHOOSE e \in ReadyEntries(P) : e.tid = id

\* read_timeline(after_id, max): up to `max` Ready entries with timeline id
\* above after_id, ascending, and the largest id returned (after_id if none)
read_timeline(P, after_id, max) ==
    LET ids == Take(SortedSeq({e.tid : e \in {x \in ReadyEntries(P) : x.tid > after_id}}), max)
    IN  [txns |-> [i \in 1..Len(ids) |-> [id |-> ids[i], txn |-> TxnOf(EntryOfTid(P, ids[i]))]],
         new_after |-> IF Len(ids) = 0 THEN after_id ELSE ids[Len(ids)]]

\* filter_read_timeline(ids): the still-live ones of `ids`, in input order
RECURSIVE filter_read_timeline(_, _)
filter_read_timeline(P, ids) ==
    IF ids = <<>> THEN <<>>
    ELSE (IF \E e \in ReadyEntries(P) : e.tid = Head(ids)
          THEN <<[id |-> Head(ids), txn |-> TxnOf(EntryOfTid(P, Head(ids)))]>>
          ELSE <<>>)
         \o filter_read_timeline(P, Tail(ids))

remove_transaction(P, sender, seq, is_rejected) ==
    IF is_rejected
    THEN {e \in P : ~(e.sender = sender /\ e.seq >= seq)}
    ELSE {e \in P : ~(e.sender = sender /\ e.seq = seq)}

gc_by_expiration_time(P, now) == {e \in P : e.exp > now}

\* get_block's priority order: governance_role class descending, then
\* ranking_score descending, then the earlier entry first (entries carry no
\* insertion_time here: Ready entries of equal class and score are taken in
\* timeline order)
HigherPriority(e, f) ==
    \/ e.role > f.role
    \/ e.role = f.role /\ e.score > f.score
    \/ e.role = f.role /\ e.score = f.score /\ e.tid <= f.tid

RECURSIVE by_priority(_)
by_priority(S) ==
    IF S = {} THEN <<>>
    ELSE LET m == CHOOSE e \in S : \A f \in S : HigherPriority(e, f)
         IN  <<m>> \o by_priority(S \ {m})

\* get_block(max_size, exclude): up to max_size Ready entries in priority
\* order, none of them a pointer of `exclude`; the pool is left as it is
get_block(P, max_size, exclude) ==
    LET picked == Take(by_priority({e \in ReadyEntries(P) :
                                        <<e.sender, e.seq>> \notin exclude}), max_size)
    IN  [i \in 1..Len(picked) |-> TxnOf(picked[i])]

process_incoming_transactions(P, ntid, d, transactions, vals, timeline_state) ==
    insert_validated(prefilter_kept(transactions, d, 1), vals, timeline_state, 1,
                     [statuses |-> prefilter_statuses(transactions, d, 1),
                      pool |-> P, next_tid |-> ntid])

----------------------------------------------------------------------------
(* BatchId and its wire form *)

\* k bytes of n, least significant first
RECURSIVE le_bytes(_, _)
le_bytes(n, k) == IF k = 0 THEN <<>> ELSE <<n % 256>> \o le_bytes(n \div 256, k - 1)

RECURSIVE le_value(_)
le_value(bytes) == IF bytes = <<>> THEN 0 ELSE Head(bytes) + 256 * le_value(Tail(bytes))

\* lcs::to_bytes(&BatchId(u64, u64)): two fixed-width little-endian integers
to_bytes(batch_id) == le_bytes(batch_id[1], 8) \o le_bytes(batch_id[2], 8)

\* lcs::from_bytes::<BatchId>: fails unless exactly two u64 are present
BadBatchId == <<NoTid, NoTid>>
from_bytes(bytes) ==
    IF Len(bytes) # 16 THEN BadBatchId
    ELSE <<le_value(SubSeq(bytes, 1, 8)), le_value(SubSeq(bytes, 9, 16))>>

----------------------------------------------------------------------------
(* Peer manager (contract of peer_manager as tasks.rs consumes it)          *)
(* PeerSyncState: [is_alive, picked, timeline_id, sent_batches,             *)
(*                 total_retry_txns, backoff_mode]                          *)
(* sent_batches: BatchId -> [timeline_ids, sent]; `sent` keeps, for the     *)
(* record, the (id, txn) pairs that were put on the wire.                   *)

is_picked_peer(PM, peer) == PM[peer].picked

get_peer_state(PM, peer) == PM[peer]

update_peer_broadcast(PM, peer, batch_id, batch_timeline_ids, new_timeline_id, sent) ==
    LET state == PM[peer]
        sb == state.sent_batches
        sb2 == [b \in DOMAIN sb \cup {batch_id} |->
                   IF b = batch_id
                   THEN [timeline_ids |-> batch_timeline_ids, sent |-> sent]
                   ELSE sb[b]]
    IN  [PM EXCEPT ![peer] = [state EXCEPT !.sent_batches = sb2,
                                           !.timeline_id = new_timeline_id]]

\* the timeline ids an ACK's retry indices stand for in a recorded batch
retry_timeline_ids(batch, retry_txns) ==
    {batch.timeline_ids[i + 1] :
        i \in {j \in Range(retry_txns) : j + 1 <= Len(batch.timeline_ids)}}

ack_is_known(PM, peer, request_id) == from_bytes(request_id) \in DOMAIN PM[peer].sent_batches

process_broadcast_ack(PM, peer, request_id, retry_txns, backoff) ==
    LET state == PM[peer]
        batch_id == from_bytes(request_id)
        sb == state.sent_batches
    IN  IF ~ack_is_known(PM, peer, request_id) THEN PM
        ELSE [PM EXCEPT ![peer] =
                 [state EXCEPT
                    !.total_retry_txns = @ \cup retry_timeline_ids(sb[batch_id], retry_txns),
                    !.sent_batches = [b \in DOMAIN sb \ {batch_id} |-> sb[b]],
                    !.backoff_mode = backoff]]

----------------------------------------------------------------------------
(* Broadcast scheduler *)

\* mutant: the retry ids are taken as they are, live or not
retry_part_unfiltered(P, state) ==
    LET ids == SortedSeq(state.total_retry_txns)
    IN  [i \in 1..Len(ids) |->
            [id |-> ids[i],
             txn |-> IF \E e \in ReadyEntries(P) : e.tid = ids[i]
                     THEN TxnOf(EntryOfTid(P, ids[i]))
                     ELSE [sender |-> "A", seq |-> 0, exp |-> 0]]]

\* lines 114-124: retries first, then a fresh timeline read if there is room
retry_part(P, state) ==
    filter_read_timeline(P, SortedSeq(state.total_retry_txns))

\* mutant: the fresh read asks for a full batch whatever the retries
fresh_part_full(P, state, retry_txns) ==
    read_timeline(P, state.timeline_id, config.shared_mempool_batch_size)

\* mutant: a batch without a fresh read ends at position 0
fresh_part_from_zero(P, state, retry_txns) ==
    IF Len(retry_txns) < config.shared_mempool_batch_size
    THEN read_timeline(P, state.timeline_id, config.shared_mempool_batch_size - Len(retry_txns))
    ELSE [txns |-> <<>>, new_after |-> 0]

fresh_part(P, state, retry_txns) ==
    IF Len(retry_txns) < config.shared_mempool_batch_size
    THEN read_timeline(P, state.timeline_id, config.shared_mempool_batch_size - Len(retry_txns))
    ELSE [txns |-> <<>>, new_after |-> state.timeline_id]

\* mutant: the fresh transactions go first
all_txns_fresh_first(retry_txns, new_txns) ==
    Take(new_txns \o retry_txns, config.shared_mempool_batch_size)

\* lines 140-145: the batch that goes on the wire
all_txns(retry_txns, new_txns) ==
    Take(retry_txns \o new_txns, config.shared_mempool_batch_size)

\* mutant: the ids are recorded in the reverse of the transmission order
batch_timeline_ids_reversed(txns) == [i \in 1..Len(txns) |-> txns[Len(txns) + 1 - i].id]

\* line 146: the timeline ids recorded for the batch
batch_timeline_ids(txns) == [i \in 1..Len(txns) |-> txns[i].id]

\* lines 147-150
batch_txns(txns) == [i \in 1..Len(txns) |-> txns[i].txn]

\* mutant: the batch is keyed by its end position alone
BatchId_end_only(timeline_id, new_timeline_id) == <<new_timeline_id, new_timeline_id>>

\* line 157
BatchId(timeline_id, new_timeline_id) == <<timeline_id, new_timeline_id>>

\* mutant: a stale non-backoff dispatch is not recognised
stale_dispatch_never(backoff, next_backoff) == FALSE

\* lines 101-106: dispatched as non-backoff, but the peer is in backoff by now
stale_dispatch(backoff, next_backoff) == ~backoff /\ next_backoff

\* mutant: the peer state is updated whatever send_to returned
send_outcome_ignoring_error(send_ok, PM, peer, batch_id, ids, new_timeline_id, txns) ==
    [peers |-> update_peer_broadcast(PM, peer, batch_id, ids, new_timeline_id, txns),
     notified |-> send_ok]

\* lines 166-203: the peer state after send_to returned, and whether the
\* subscribers were notified
send_outcome(send_ok, PM, peer, batch_id, ids, new_timeline_id, txns) ==
    IF ~send_ok
    THEN [peers |-> PM, notified |-> FALSE]
    ELSE [peers |-> update_peer_broadcast(PM, peer, batch_id, ids, new_timeline_id, txns),
          notified |-> TRUE]

\* mutant: the peer's backoff_mode is not read
loaded_next_backoff_never(state) == FALSE

\* line 83: next_backoff, the backoff_mode of the peer state just loaded
loaded_next_backoff(state) == state.backoff_mode

NoMsg == [request_id |-> <<>>, transactions |-> <<>>]
NoBatch == [batch_id |-> BadBatchId, ids |-> <<>>]

\* broadcast_single_peer: `path` names the return taken; send_ok is the
\* outcome of network_sender.send_to when the send is reached.
broadcast_single_peer(peer, backoff, PM, P, send_ok) ==
    LET state == get_peer_state(PM, peer)
        quiet == [path |-> "", next_backoff |-> FALSE, peers |-> PM, attempted |-> FALSE,
                  msg |-> NoMsg, batch |-> NoBatch, notified |-> FALSE]
    IN
    IF ~is_picked_peer(PM, peer)
    THEN [quiet EXCEPT !.path = "not_picked", !.next_backoff = FALSE]
    ELSE IF ~state.is_alive
    THEN [quiet EXCEPT !.path = "not_alive", !.next_backoff = loaded_next_backoff(state)]
    ELSE IF stale_dispatch(backoff, loaded_next_backoff(state))
    THEN [quiet EXCEPT !.path = "dropped", !.next_backoff = loaded_next_backoff(state)]
    ELSE
    LET retry_txns == retry_part(P, state)
        fresh == fresh_part(P, state, retry_txns)
        new_txns == fresh.txns
        new_timeline_id == fresh.new_after
    IN
    IF new_txns = <<>> /\ retry_txns = <<>>
    THEN [quiet EXCEPT !.path = "empty", !.next_backoff = loaded_next_backoff(state)]
    ELSE IF read_timeline(P, 0, 1).txns = <<>>
    THEN [quiet EXCEPT !.path = "panic"]
    ELSE
    LET txns == all_txns(retry_txns, new_txns)
        batch_id == BatchId(state.timeline_id, new_timeline_id)
        request_id == to_bytes(batch_id)
        msg == [request_id |-> request_id, transactions |-> batch_txns(txns)]
        batch == [batch_id |-> batch_id, ids |-> [i \in 1..Len(txns) |-> txns[i].id]]
        out == send_outcome(send_ok, PM, peer, batch_id, batch_timeline_ids(txns),
                            new_timeline_id, txns)
    IN
    [path |-> IF send_ok THEN "sent" ELSE "send_fail",
     next_backoff |-> loaded_next_backoff(state),
     peers |-> out.peers, attempted |-> TRUE, msg |-> msg, batch |-> batch,
     notified |-> out.notified]

\* mutant: the next broadcast always waits the normal interval
next_scheduled_tick_only(next_broadcast_backoff) ==
    [backoff |-> next_broadcast_backoff,
     interval_ms |-> "shared_mempool_tick_interval_ms"]

\* lines 57-68: the ScheduledBroadcast pushed by execute_broadcast
next_scheduled(next_broadcast_backoff) ==
    [backoff |-> next_broadcast_backoff,
     interval_ms |-> IF next_broadcast_backoff
                     THEN "shared_mempool_backoff_interval_ms"
                     ELSE "shared_mempool_tick_interval_ms"]

----------------------------------------------------------------------------
(* Inputs *)

Txns(maxseq, exps) ==
    {[sender |-> s, seq |-> q, exp |-> x] : s \in Senders, q \in 0..maxseq, x \in exps}

ValOk(score, role) == [kind |-> "ok", score |-> score, role |-> role]
ValDiscard == [kind |-> "discard", status |-> "INVALID_SIGNATURE"]
ValErr == [kind |-> "err"]

\* the validator's possible answers in the ingress specification
IngressVals == {ValOk(1, 0), ValDiscard, ValErr}
\* and in the coordinator specification
SysVals == {ValOk(1, 0)}

\* retry indices an ACK may carry: positions of the batch and one beyond it
RetrySeqs ==
    {SortedSeq(S) : S \in SUBSET (0..(config.shared_mempool_batch_size - 1))}
    \cup {<<config.shared_mempool_batch_size>>}

----------------------------------------------------------------------------
(* State *)

InitPeerState ==
    [is_alive |-> TRUE, picked |-> TRUE, timeline_id |-> 0,
     sent_batches |-> <<>>, total_retry_txns |-> {}, backoff_mode |-> FALSE]

InitHist == [ack_backoff |-> "none", fail |-> NoBatch, clean |-> FALSE]

\* the validator started at bootstrap, from on-chain config 0
InitValidator == [config |-> 0]

\* no task in flight, the pool lock free, the validator's lock free
InitTasks ==
    [lock |-> "free", at |-> <<>>,
     validator_lock |-> [readers |-> {}, writer |-> "free"]]

NoEvent == [type |-> "none"]

\* grpc_client.rs line 34
MAX_GRPC_RETRY_COUNT == 1

\* what one attempt of a call leaves in `resp`: a response (for a submission
\* with the status Accepted or with another one), a gRPC RpcFailure with
\* status Unavailable or with another status, another grpcio::Error, an
\* error that is no grpcio::Error (from_proto, verify)
GrpcResults ==
    {"Ok_Accepted", "Ok_Rejected", "RpcFailure_Unavailable",
     "RpcFailure_DeadlineExceeded", "RpcFinished", "NotGrpc"}

\* get_with_proof_async(..)? and get_balances_async(..)?: the call could not
\* be created and `?` returns from the function at once
CallNotStarted == "CallNotStarted"

GrpcMethods == {"submit_transaction", "get_with_proof_sync", "get_balance"}

\* the outcomes of one attempt of `method`: submit_transaction_opt wraps
\* every error into resp, the two others may fail before the call exists
attempt_results(method) ==
    IF method = "submit_transaction" THEN GrpcResults
    ELSE (GrpcResults \ {"Ok_Rejected"}) \cup {CallNotStarted}

\* need_to_retry(&mut try_cnt, &ret), lines 150-164: the counter after the
\* call and the answer
need_to_retry(try_cnt, ret) ==
    IF try_cnt <= MAX_GRPC_RETRY_COUNT
    THEN [try_cnt |-> try_cnt + 1, retry |-> ret = "RpcFailure_Unavailable"]
    ELSE [try_cnt |-> try_cnt, retry |-> FALSE]

\* no call yet; sequence_number is sender_account.sequence_number
InitClient ==
    [method |-> "none", pc |-> "idle", resp |-> "none", try_cnt |-> 0,
     attempts |-> 0, outcome |-> "none", sequence_number |-> 0]

InitCommon ==
    /\ pool = {}
    /\ peers = [p \in Peers |-> InitPeerState]
    /\ scheduled = [p \in Peers |-> <<next_scheduled(FALSE)>>]
    /\ ev = NoEvent
    /\ hist = [p \in Peers |-> InitHist]
    /\ validator = InitValidator
    /\ tasks = InitTasks
    /\ client = InitClient

\* a pool lock poisoned by a panic under it stops every handler
Crashed ==
    \/ ev.type = "broadcast" /\ ev.path = "panic"
    \/ ev.type \in {"client_txn", "get_block", "reject", "commit"} /\ ev.callback = "panic"
    \/ ev.type = "config_update" /\ ev.crashed

\* bookkeeping of `hist` for a step that is not a broadcast tick of the peer
Touched(p) == pool' # pool \/ peers'[p] # peers[p]

HistKeep(ackp, ackval) ==
    hist' = [p \in Peers |->
               [hist[p] EXCEPT !.clean = @ /\ ~Touched(p),
                               !.ack_backoff = IF p = ackp THEN ackval ELSE @]]

----------------------------------------------------------------------------
(* Handlers *)

RemoveAt(s, i) == SubSeq(s, 1, i - 1) \o SubSeq(s, i + 1, Len(s))

\* mutant: a reply that cannot be delivered brings the task down
callback_send_or_panic(receiver_alive) == IF receiver_alive THEN "sent" ELSE "panic"

\* callback.send(..) on a oneshot channel: Err when the receiver was dropped;
\* the handlers log the error and go on
callback_send(receiver_alive) == IF receiver_alive THEN "sent" ELSE "dropped"

\* the reply receivers of the requests: all alive
AllAlive == {TRUE}

\* lines 362-370: the validator's answers for the transactions that were kept
validation_results(transactions, d, vals) ==
    LET kept == prefilter_kept(transactions, d, 1)
    IN  [i \in 1..Len(kept) |-> vals[kept[i].orig + 1]]

\* execute_broadcast(peer, backoff, ...) for one pending ScheduledBroadcast
ExecuteBroadcast(peer) ==
    /\ ~Crashed
    /\ \E i \in 1..Len(scheduled[peer]), send_ok \in BOOLEAN :
       \E r \in {broadcast_single_peer(peer, scheduled[peer][i].backoff, peers, pool, send_ok)} :
        LET backoff == scheduled[peer][i].backoff
        IN  /\ peers' = r.peers
            /\ scheduled' =
                 [scheduled EXCEPT ![peer] =
                     IF r.path = "panic" THEN RemoveAt(@, i)
                     ELSE Append(RemoveAt(@, i), next_scheduled(r.next_backoff))]
            /\ ev' = [type |-> "broadcast", peer |-> peer, backoff |-> backoff,
                      path |-> r.path, attempted |-> r.attempted,
                      batch |-> r.batch, notified |-> r.notified,
                      transactions |-> r.msg.transactions,
                      next_backoff |-> r.next_backoff,
                      \* the peer's previous tick failed at the transport and
                      \* neither the pool nor the peer state changed since
                      after_clean_fail |-> hist[peer].fail # NoBatch /\ hist[peer].clean]
            /\ hist' = [hist EXCEPT ![peer] =
                          [@ EXCEPT !.fail = IF r.path = "send_fail" THEN r.batch ELSE NoBatch,
                                    !.clean = (r.path = "send_fail")]]
    /\ UNCHANGED <<pool, next_tid, db, config, client, validator, tasks>>

\* The ACKs a peer may send: for a batch in flight with any retry indices, or
\* for no batch this node knows (an unknown BatchId, bytes that are no BatchId)
AckInputs(peer) ==
    [request_id : {to_bytes(b) : b \in DOMAIN peers[peer].sent_batches},
     retry_txns : RetrySeqs, backoff : BOOLEAN]
    \cup [request_id : {to_bytes(<<MaxTid + 1, MaxTid + 1>>), <<>>},
          retry_txns : {<<0>>}, backoff : {TRUE}]

\* BroadcastTransactionsResponse{request_id, retry_txns, backoff} from `peer`;
\* a peer whose connection is lost delivers no message
ReceiveAck(peer) ==
    /\ ~Crashed
    /\ peers[peer].is_alive
    /\ \E a \in AckInputs(peer) :
        LET request_id == a.request_id
            retry_txns == a.retry_txns
            backoff == a.backoff
            known == ack_is_known(peers, peer, request_id)
        IN
        /\ peers' = process_broadcast_ack(peers, peer, request_id, retry_txns, backoff)
        /\ ev' = [type |-> "ack", peer |-> peer, batch_id |-> from_bytes(request_id),
                  retry_txns |-> retry_txns, backoff |-> backoff, known |-> known]
        /\ UNCHANGED <<pool, next_tid, db, scheduled, config, client, validator, tasks>>
        /\ HistKeep(peer, IF ~known THEN hist[peer].ack_backoff
                          ELSE IF backoff THEN "on" ELSE "off")

\* process_transaction_broadcast: a broadcast from a peer and the ACK for it
ProcessTransactionBroadcast(Batches, ValSet, tid_cap) ==
    /\ ~Crashed
    /\ \E transactions \in Batches :
       \E vals \in [1..Len(transactions) -> ValSet] :
       \E r \in {process_incoming_transactions(pool, next_tid, db, transactions, vals, "Ready")} :
        LET request_id == to_bytes(<<0, Len(transactions)>>)
        IN  /\ r.next_tid <= tid_cap + 1
            /\ pool' = r.pool
            /\ next_tid' = r.next_tid
            /\ ev' = [type |-> "peer_txns", transactions |-> transactions,
                      validation_results |-> validation_results(transactions, db, vals),
                      \* line 366: smp.validator.read(), the validator that answered
                      validated_by |-> validator,
                      results |-> r.statuses,
                      ack |-> gen_ack_response(request_id, r.statuses)]
    /\ UNCHANGED <<db, peers, scheduled, config, client, validator, tasks>>
    /\ HistKeep(CHOOSE p \in Peers : TRUE, hist[CHOOSE p \in Peers : TRUE].ack_backoff)

\* process_client_transaction_submission: one transaction, reply on the callback
ProcessClientSubmission(TxSet, ValSet, tid_cap, Receivers) ==
    /\ ~Crashed
    /\ \E transaction \in TxSet, v \in ValSet, receiver_alive \in Receivers :
       \E r \in {process_incoming_transactions(pool, next_tid, db, <<transaction>>,
                                                <<v>>, "NotReady")} :
            /\ r.next_tid <= tid_cap + 1
            /\ pool' = r.pool
            /\ next_tid' = r.next_tid
            /\ ev' = [type |-> "client_txn", transactions |-> <<transaction>>,
                      validation_results |-> validation_results(<<transaction>>, db, <<v>>),
                      validated_by |-> validator,
                      results |-> r.statuses,
                      \* statuses.get(0): the reply sent on the callback, if any
                      replies |-> IF Len(r.statuses) >= 1
                                  THEN <<r.statuses[1].status>> ELSE <<>>,
                      callback |-> IF Len(r.statuses) >= 1
                                   THEN callback_send(receiver_alive) ELSE "unused"]
    /\ UNCHANGED <<db, peers, scheduled, config, client, validator, tasks>>
    /\ HistKeep(CHOOSE p \in Peers : TRUE, hist[CHOOSE p \in Peers : TRUE].ack_backoff)

\* mutant: a commit never collects expired entries
commit_txns_without_gc(P, transactions, block_timestamp_usecs, is_rejected) ==
    LET RECURSIVE rm(_, _)
        rm(Q, i) == IF i > Len(transactions) THEN Q
                    ELSE rm(remove_transaction(Q, transactions[i].sender,
                                               transactions[i].seq, is_rejected), i + 1)
    IN  rm(P, 1)

commit_txns(P, transactions, block_timestamp_usecs, is_rejected) ==
    LET RECURSIVE rm(_, _)
        rm(Q, i) == IF i > Len(transactions) THEN Q
                    ELSE rm(remove_transaction(Q, transactions[i].sender,
                                               transactions[i].seq, is_rejected), i + 1)
        Q1 == rm(P, 1)
    IN  IF block_timestamp_usecs > 0 THEN gc_by_expiration_time(Q1, block_timestamp_usecs)
        ELSE Q1

\* process_state_sync_request: a commit notification from state sync
ProcessStateSyncRequest(TxSet, Stamps, Receivers) ==
    /\ ~Crashed
    /\ \E t \in TxSet, block_timestamp_usecs \in Stamps, receiver_alive \in Receivers :
        /\ pool' = commit_txns(pool, <<t>>, block_timestamp_usecs, FALSE)
        /\ ev' = [type |-> "commit", transactions |-> <<t>>,
                  block_timestamp_usecs |-> block_timestamp_usecs,
                  callback |-> callback_send(receiver_alive),
                  \* for the record: entries other than the committed one
                  \* that left the pool
                  expired |-> Cardinality({e \in pool \ pool' :
                                              e.sender # t.sender \/ e.seq # t.seq})]
    /\ UNCHANGED <<next_tid, db, peers, scheduled, config, client, validator, tasks>>
    /\ HistKeep(CHOOSE p \in Peers : TRUE, hist[CHOOSE p \in Peers : TRUE].ack_backoff)

\* mutant: a block of size 0 is asked of the pool as it is
block_size_as_asked(max_block_size) == max_block_size

\* mutant: a block never holds more than one transaction
block_size_one(max_block_size) == 1

\* line 502: cmp::max(max_block_size, 1)
block_size(max_block_size) == IF max_block_size > 1 THEN max_block_size ELSE 1

\* lines 491-494: the pointers of the transactions consensus already holds
exclude_transactions(transactions) == {<<t.sender, t.seq>> : t \in transactions}

\* mutant: the block is pulled without the expiry GC before it
pull_block_without_gc(P, max_block_size, transactions, curr_time) ==
    [pool |-> P,
     txns |-> get_block(P, block_size(max_block_size), exclude_transactions(transactions))]

\* mutant: the transactions of the block are taken out of the pool
pull_block_consuming(P, max_block_size, transactions, curr_time) ==
    LET Q == gc_by_expiration_time(P, curr_time)
        txns == get_block(Q, block_size(max_block_size), exclude_transactions(transactions))
    IN  [pool |-> {e \in Q : TxnOf(e) \notin Range(txns)}, txns |-> txns]

\* lines 496-504: under the pool lock, GC at the current time and get_block
pull_block(P, max_block_size, transactions, curr_time) ==
    LET Q == gc_by_expiration_time(P, curr_time)
    IN  [pool |-> Q,
         txns |-> get_block(Q, block_size(max_block_size),
                            exclude_transactions(transactions))]

\* ConsensusRequest::GetBlockRequest(max_block_size, transactions, callback)
ProcessConsensusGetBlock(Sizes, Excludes, Times, Receivers) ==
    /\ ~Crashed
    /\ \E max_block_size \in Sizes, transactions \in Excludes, curr_time \in Times,
          receiver_alive \in Receivers :
       \E r \in {pull_block(pool, max_block_size, transactions, curr_time)} :
        /\ pool' = r.pool
        /\ ev' = [type |-> "get_block", max_block_size |-> max_block_size,
                  transactions |-> transactions, curr_time |-> curr_time,
                  resp |-> [kind |-> "GetBlockResponse", txns |-> r.txns],
                  callback |-> callback_send(receiver_alive),
                  \* for the record: entries that left the pool
                  expired |-> Cardinality(pool \ r.pool)]
    /\ UNCHANGED <<next_tid, db, peers, scheduled, config, client, validator, tasks>>
    /\ HistKeep(CHOOSE p \in Peers : TRUE, hist[CHOOSE p \in Peers : TRUE].ack_backoff)

\* mutant: a rejected transaction is removed the way a committed one is
reject_txns_as_committed(P, transactions) == commit_txns(P, transactions, 0, FALSE)

\* line 522: commit_txns(mempool, transactions, 0, true)
reject_txns(P, transactions) == commit_txns(P, transactions, 0, TRUE)

\* ConsensusRequest::RejectNotification(transactions, callback)
ProcessConsensusReject(TxSet, Receivers) ==
    /\ ~Crashed
    /\ \E t \in TxSet, receiver_alive \in Receivers :
        /\ pool' = reject_txns(pool, <<t>>)
        /\ ev' = [type |-> "reject", transactions |-> <<t>>,
                  resp |-> [kind |-> "CommitResponse", txns |-> <<>>],
                  callback |-> callback_send(receiver_alive),
                  \* for the record: entries that left the pool
                  removed |-> Cardinality(pool \ pool')]
    /\ UNCHANGED <<next_tid, db, peers, scheduled, config, client, validator, tasks>>
    /\ HistKeep(CHOOSE p \in Peers : TRUE, hist[CHOOSE p \in Peers : TRUE].ack_backoff)

\* restart(config_update) of the validator: a validator for the new on-chain
\* config, or an error that leaves the validator as it was
restart(v, config_update, restart_ok) ==
    IF restart_ok THEN [config |-> config_update] ELSE v

\* mutant: a failed restart brings the coordinator down
process_config_update_fatal(v, config_update, restart_ok) ==
    [validator |-> restart(v, config_update, restart_ok),
     counted |-> FALSE, crashed |-> ~restart_ok]

\* lines 570-590: restart under the validator's write lock; an error is
\* counted and logged, and the function returns
process_config_update(v, config_update, restart_ok) ==
    [validator |-> restart(v, config_update, restart_ok),
     counted |-> ~restart_ok, crashed |-> FALSE]

\* an on-chain reconfiguration notification
ProcessConfigUpdate(Updates) ==
    /\ ~Crashed
    /\ \E config_update \in Updates, restart_ok \in BOOLEAN :
       \E r \in {process_config_update(validator, config_update, restart_ok)} :
        /\ validator' = r.validator
        /\ ev' = [type |-> "config_update", config_update |-> config_update,
                  restart |-> IF restart_ok THEN "ok" ELSE "err",
                  counted |-> r.counted, crashed |-> r.crashed]
    /\ UNCHANGED <<pool, next_tid, db, peers, scheduled, config, client, tasks>>
    /\ HistKeep(CHOOSE p \in Peers : TRUE, hist[CHOOSE p \in Peers : TRUE].ack_backoff)

\* the network reports a peer lost or (re)connected; the picking policy changes
PeerEvent(peer) ==
    /\ ~Crashed
    /\ \E f \in {"is_alive", "picked"} :
        peers' = [peers EXCEPT ![peer] =
                    IF f = "is_alive" THEN [@ EXCEPT !.is_alive = ~@]
                    ELSE [@ EXCEPT !.picked = ~@]]
    /\ ev' = [type |-> "peer_event", peer |-> peer]
    /\ UNCHANGED <<pool, next_tid, db, scheduled, config, client, validator, tasks>>
    /\ HistKeep(peer, hist[peer].ack_backoff)

----------------------------------------------------------------------------
(* Handlers as tasks that run concurrently: each is the sequence of the      *)
(* steps of its code, and the steps of the tasks in flight interleave.       *)
(* tasks.lock is the holder of the pool mutex, tasks.at the tasks in flight. *)

\* mutant: the broadcast keeps the pool lock while it sends
program_send_under_lock(kind) ==
    CASE kind = "broadcast" -> <<"lock", "read_timeline", "send_to", "unlock">>
      [] kind = "ingress" ->
            <<"storage_read", "validate", "lock", "add_txn", "unlock", "notify", "reply">>
      [] kind = "get_block" -> <<"lock", "get_block", "unlock", "reply">>
      [] kind = "commit" -> <<"lock", "commit_txns", "unlock", "reply">>
      [] kind = "reject" -> <<"lock", "reject_txns", "unlock", "reply">>
      [] kind = "incoming_transactions" ->
            <<"storage_read", "validator_read", "validate_transaction",
              "lock", "add_txn", "unlock", "notify", "reply">>
      [] kind = "config_update" -> <<"validator_write", "restart_begin", "restart_end">>

\* mutant: the validator is restarted without its write lock
program_restart_unlocked(kind) ==
    CASE kind = "broadcast" -> <<"lock", "read_timeline", "unlock", "send_to">>
      [] kind = "ingress" ->
            <<"storage_read", "validate", "lock", "add_txn", "unlock", "notify", "reply">>
      [] kind = "get_block" -> <<"lock", "get_block", "unlock", "reply">>
      [] kind = "commit" -> <<"lock", "commit_txns", "unlock", "reply">>
      [] kind = "reject" -> <<"lock", "reject_txns", "unlock", "reply">>
      [] kind = "incoming_transactions" ->
            <<"storage_read", "validator_read", "validate_transaction",
              "lock", "add_txn", "unlock", "notify", "reply">>
      [] kind = "config_update" -> <<"restart_begin", "restart_end">>

\* the steps of a handler, in the order of its code:
\*   broadcast_single_peer      lock 109, reads 115-136, drop 138, send_to 166
\*   process_incoming_transactions (and its caller's reply)
\*                              storage read 318-321, validation 362-370,
\*                              lock block 373-407, notify 408, reply 228
\*   process_consensus_request  lock block 496-504, reply 531
\*   process_state_sync_request commit_txns 552-566 under the lock, reply 463
\* and, with the validator's lock and one step per transaction,
\*   process_incoming_transactions
\*                              storage read 318-321; per transaction
\*                              validator.read() 364-366 and
\*                              validate_transaction 367 (the guard is dropped
\*                              with the expression); lock 373, the add_txn
\*                              of the for loop 375-405, the end of the block
\*                              407, notify 408, the caller's reply
\*   process_config_update      validator.write() 581-583, restart 584
\*   process_consensus_request(RejectNotification)
\*                              commit_txns 522 under the lock, reply 531
program(kind) ==
    CASE kind = "broadcast" -> <<"lock", "read_timeline", "unlock", "send_to">>
      [] kind = "ingress" ->
            <<"storage_read", "validate", "lock", "add_txn", "unlock", "notify", "reply">>
      [] kind = "get_block" -> <<"lock", "get_block", "unlock", "reply">>
      [] kind = "commit" -> <<"lock", "commit_txns", "unlock", "reply">>
      [] kind = "reject" -> <<"lock", "reject_txns", "unlock", "reply">>
      [] kind = "incoming_transactions" ->
            <<"storage_read", "validator_read", "validate_transaction",
              "lock", "add_txn", "unlock", "notify", "reply">>
      [] kind = "config_update" -> <<"validator_write", "restart_begin", "restart_end">>

\* the steps that wait on something outside the task: a storage read, a
\* network send, a reply on a one-shot channel, a notification
IsSuspensionOrIo(instr) == instr \in {"storage_read", "send_to", "reply", "notify"}

InFlight == DOMAIN tasks.at

\* the step a task in flight is at
instr(t) == program(tasks.at[t].kind)[tasks.at[t].pc]

NoSeqRead == -2

WithTask(at, t, rec) == [k \in DOMAIN at \cup {t} |-> IF k = t THEN rec ELSE at[k]]

WithoutTask(at, t) ==
    IF DOMAIN at \ {t} = {} THEN <<>> ELSE [k \in DOMAIN at \ {t} |-> at[k]]

\* where the step `name` is in the handler
PcOf(kind, name) == CHOOSE i \in 1..Len(program(kind)) : program(kind)[i] = name

\* mutant: the pool lock is taken anew for every transaction of the batch
next_pc_relock(rec) ==
    LET i == program(rec.kind)[rec.pc]
        more_to_validate == rec.validated < Len(rec.kept)
        more_to_add == rec.added < Len(rec.kept)
    IN  IF rec.kind # "incoming_transactions" THEN rec.pc + 1
        ELSE CASE i = "storage_read" ->
                    IF more_to_validate THEN rec.pc + 1 ELSE PcOf(rec.kind, "lock")
               [] i = "validate_transaction" ->
                    IF more_to_validate THEN PcOf(rec.kind, "validator_read")
                    ELSE rec.pc + 1
               [] i = "lock" -> IF more_to_add THEN rec.pc + 1 ELSE PcOf(rec.kind, "unlock")
               [] i = "add_txn" -> rec.pc + 1
               [] i = "unlock" -> IF more_to_add THEN PcOf(rec.kind, "lock") ELSE rec.pc + 1
               [] OTHER -> rec.pc + 1

\* the step that follows the one `rec` has just done.  In
\* process_incoming_transactions the map over the transactions (362-370) goes
\* back to validator.read() while transactions are left, and the for loop
\* (375-405) stays inside the block that holds the pool lock (373-407).
next_pc(rec) ==
    LET i == program(rec.kind)[rec.pc]
        more_to_validate == rec.validated < Len(rec.kept)
        more_to_add == rec.added < Len(rec.kept)
    IN  IF rec.kind # "incoming_transactions" THEN rec.pc + 1
        ELSE CASE i = "storage_read" ->
                    IF more_to_validate THEN rec.pc + 1 ELSE PcOf(rec.kind, "lock")
               [] i = "validate_transaction" ->
                    IF more_to_validate THEN PcOf(rec.kind, "validator_read")
                    ELSE rec.pc + 1
               [] i = "lock" -> IF more_to_add THEN rec.pc + 1 ELSE PcOf(rec.kind, "unlock")
               [] i = "add_txn" -> IF more_to_add THEN rec.pc ELSE rec.pc + 1
               [] OTHER -> rec.pc + 1

\* the task has done its step: on to the next one, or out when it was the last
Advanced(at, t, rec) ==
    IF rec.pc = Len(program(rec.kind)) THEN WithoutTask(at, t)
    ELSE WithTask(at, t, [rec EXCEPT !.pc = next_pc(rec)])

TaskEvent(t, i) == [type |-> "task_step", task |-> t, instr |-> i]

HistSame == HistKeep(CHOOSE p \in Peers : TRUE, hist[CHOOSE p \in Peers : TRUE].ack_backoff)

\* a handler starts: a client submission, a commit notification for the
\* block that brought the sender's sequence in storage to seq + 1, a
\* GetBlock request, or a scheduled broadcast that fires
StartIngress(TxSet, limit) ==
    /\ ~Crashed
    /\ Cardinality(InFlight) < limit
    /\ "ingress" \notin InFlight
    /\ next_tid <= MaxTid
    /\ \E transaction \in TxSet :
         tasks' = [tasks EXCEPT !.at =
             WithTask(@, "ingress", [kind |-> "ingress", pc |-> 1,
                                     transaction |-> transaction,
                                     sequence_number |-> NoSeqRead])]
    /\ ev' = TaskEvent("ingress", "start")
    /\ UNCHANGED <<pool, next_tid, db, peers, scheduled, config, client, validator>>
    /\ HistSame

StartCommit(TxSet, limit) ==
    /\ ~Crashed
    /\ Cardinality(InFlight) < limit
    /\ "commit" \notin InFlight
    /\ \E t \in TxSet :
         /\ t.seq = db[t.sender]
         /\ db' = [db EXCEPT ![t.sender] = t.seq + 1]
         /\ tasks' = [tasks EXCEPT !.at =
               WithTask(@, "commit", [kind |-> "commit", pc |-> 1, transaction |-> t])]
    /\ ev' = TaskEvent("commit", "start")
    /\ UNCHANGED <<pool, next_tid, peers, scheduled, config, client, validator>>
    /\ HistSame

StartGetBlock(limit) ==
    /\ ~Crashed
    /\ Cardinality(InFlight) < limit
    /\ "get_block" \notin InFlight
    /\ tasks' = [tasks EXCEPT !.at =
          WithTask(@, "get_block", [kind |-> "get_block", pc |-> 1])]
    /\ ev' = TaskEvent("get_block", "start")
    /\ UNCHANGED <<pool, next_tid, db, peers, scheduled, config, client, validator>>
    /\ HistSame

StartBroadcast(limit) ==
    /\ ~Crashed
    /\ Cardinality(InFlight) < limit
    /\ "broadcast" \notin InFlight
    /\ \E peer \in Peers :
         /\ scheduled[peer] # <<>>
         \* lines 81-106: the tick gets as far as the pool lock
         /\ broadcast_single_peer(peer, scheduled[peer][1].backoff, peers, pool, TRUE).path
               \notin {"not_picked", "not_alive", "dropped"}
         /\ scheduled' = [scheduled EXCEPT ![peer] = Tail(@)]
         /\ tasks' = [tasks EXCEPT !.at =
               WithTask(@, "broadcast",
                        [kind |-> "broadcast", pc |-> 1, peer |-> peer,
                         backoff |-> scheduled[peer][1].backoff, mempool |-> {}])]
    /\ ev' = TaskEvent("broadcast", "start")
    /\ UNCHANGED <<pool, next_tid, db, peers, config, client, validator>>
    /\ HistSame

StartTask(TxSet, limit) ==
    \/ StartIngress(TxSet, limit)
    \/ StartCommit(TxSet, limit)
    \/ StartGetBlock(limit)
    \/ StartBroadcast(limit)

\* the pool mutex: lock() waits until it is free; the guard is dropped
TaskLock(t) ==
    /\ ~Crashed
    /\ t \in InFlight /\ instr(t) = "lock"
    /\ tasks.lock = "free"
    /\ tasks' = [tasks EXCEPT !.lock = t, !.at = Advanced(tasks.at, t, tasks.at[t])]
    /\ ev' = TaskEvent(t, "lock")
    /\ UNCHANGED <<pool, next_tid, db, peers, scheduled, config, client, validator>>
    /\ HistSame

TaskUnlock(t) ==
    /\ ~Crashed
    /\ t \in InFlight /\ instr(t) = "unlock"
    /\ tasks' = [tasks EXCEPT !.lock = IF tasks.lock = t THEN "free" ELSE tasks.lock,
                              !.at = Advanced(tasks.at, t, tasks.at[t])]
    /\ ev' = TaskEvent(t, "unlock")
    /\ UNCHANGED <<pool, next_tid, db, peers, scheduled, config, client, validator>>
    /\ HistSame

\* process_incoming_transactions, step by step
IngressStep(ValSet) ==
    /\ ~Crashed
    /\ "ingress" \in InFlight
    /\ LET me == tasks.at["ingress"]
           i == instr("ingress")
           \* the account lookups as this task saw them
           seen == [db EXCEPT ![me.transaction.sender] = me.sequence_number]
       IN  /\ i \in {"storage_read", "validate", "add_txn", "notify", "reply"}
           /\ i = "add_txn" => tasks.lock = "ingress"
           /\ \E v \in ValSet :
              \E r \in {IF i = "add_txn"
                         THEN process_incoming_transactions(pool, next_tid, seen,
                                  <<me.transaction>>, <<v>>, "NotReady")
                         ELSE [pool |-> pool, next_tid |-> next_tid]} :
                /\ pool' = r.pool
                /\ next_tid' = r.next_tid
           /\ tasks' = [tasks EXCEPT !.at =
                 Advanced(@, "ingress",
                          IF i = "storage_read"
                          THEN [me EXCEPT !.sequence_number = db[me.transaction.sender]]
                          ELSE me)]
           /\ ev' = TaskEvent("ingress", i)
    /\ UNCHANGED <<db, peers, scheduled, config, client, validator>>
    /\ HistSame

\* process_state_sync_request, step by step
CommitStep ==
    /\ ~Crashed
    /\ "commit" \in InFlight
    /\ LET me == tasks.at["commit"]
           i == instr("commit")
       IN  /\ i \in {"commit_txns", "reply"}
           /\ i = "commit_txns" => tasks.lock = "commit"
           /\ pool' = IF i = "commit_txns"
                      THEN commit_txns(pool, <<me.transaction>>, 0, FALSE) ELSE pool
           /\ tasks' = [tasks EXCEPT !.at = Advanced(@, "commit", me)]
           /\ ev' = TaskEvent("commit", i)
    /\ UNCHANGED <<next_tid, db, peers, scheduled, config, client, validator>>
    /\ HistSame

\* process_consensus_request(GetBlockRequest), step by step
GetBlockStep(Sizes, Times) ==
    /\ ~Crashed
    /\ "get_block" \in InFlight
    /\ LET me == tasks.at["get_block"]
           i == instr("get_block")
       IN  /\ i \in {"get_block", "reply"}
           /\ i = "get_block" => tasks.lock = "get_block"
           /\ \E max_block_size \in Sizes, curr_time \in Times :
                pool' = IF i = "get_block"
                        THEN pull_block(pool, max_block_size, {}, curr_time).pool
                        ELSE pool
           /\ tasks' = [tasks EXCEPT !.at = Advanced(@, "get_block", me)]
           /\ ev' = TaskEvent("get_block", i)
    /\ UNCHANGED <<next_tid, db, peers, scheduled, config, client, validator>>
    /\ HistSame

\* execute_broadcast, step by step: the reads under the lock, then the send
\* with what was read and the bookkeeping that follows it
BroadcastStep ==
    /\ ~Crashed
    /\ "broadcast" \in InFlight
    /\ LET me == tasks.at["broadcast"]
           i == instr("broadcast")
       IN  /\ i \in {"read_timeline", "send_to"}
           /\ i = "read_timeline" => tasks.lock = "broadcast"
           /\ \E send_ok \in IF i = "send_to" THEN BOOLEAN ELSE {TRUE} :
              \E r \in {broadcast_single_peer(me.peer, me.backoff, peers,
                             IF i = "send_to" THEN me.mempool ELSE pool, send_ok)} :
                IF i = "read_timeline" /\ r.attempted
                THEN \* a batch to send: keep what was read
                     /\ tasks' = [tasks EXCEPT !.at =
                           Advanced(@, "broadcast", [me EXCEPT !.mempool = pool])]
                     /\ ev' = TaskEvent("broadcast", i)
                     /\ UNCHANGED <<peers, scheduled>>
                ELSE \* nothing to send (the return drops the lock), or the send
                     /\ tasks' = IF i = "read_timeline"
                                 THEN [tasks EXCEPT !.lock = "free",
                                                    !.at = WithoutTask(tasks.at, "broadcast")]
                                 ELSE [tasks EXCEPT !.at = Advanced(@, "broadcast", me)]
                     /\ peers' = r.peers
                     /\ scheduled' =
                          [scheduled EXCEPT ![me.peer] =
                              IF r.path = "panic" THEN @
                              ELSE Append(@, next_scheduled(r.next_backoff))]
                     /\ ev' = [type |-> "broadcast", peer |-> me.peer,
                               backoff |-> me.backoff, path |-> r.path,
                               attempted |-> r.attempted, batch |-> r.batch,
                               notified |-> r.notified,
                               transactions |-> r.msg.transactions,
                               next_backoff |-> r.next_backoff,
                               after_clean_fail |-> FALSE]
    /\ UNCHANGED <<pool, next_tid, db, config, client, validator>>
    /\ HistSame

\* a RejectNotification of consensus arrives
StartReject(TxSet, limit) ==
    /\ ~Crashed
    /\ Cardinality(InFlight) < limit
    /\ "reject" \notin InFlight
    /\ \E t \in TxSet :
         tasks' = [tasks EXCEPT !.at =
             WithTask(@, "reject", [kind |-> "reject", pc |-> 1, transaction |-> t])]
    /\ ev' = TaskEvent("reject", "start")
    /\ UNCHANGED <<pool, next_tid, db, peers, scheduled, config, client, validator>>
    /\ HistSame

\* process_consensus_request(RejectNotification), step by step
RejectStep ==
    /\ ~Crashed
    /\ "reject" \in InFlight
    /\ LET me == tasks.at["reject"]
           i == instr("reject")
       IN  /\ i \in {"reject_txns", "reply"}
           /\ i = "reject_txns" => tasks.lock = "reject"
           /\ pool' = IF i = "reject_txns" THEN reject_txns(pool, <<me.transaction>>)
                      ELSE pool
           /\ tasks' = [tasks EXCEPT !.at = Advanced(@, "reject", me)]
           /\ ev' = TaskEvent("reject", i)
    /\ UNCHANGED <<next_tid, db, peers, scheduled, config, client, validator>>
    /\ HistSame

\* the tasks that run process_incoming_transactions step by step: the one
\* of a client submission (213-236) and the one of a peer broadcast (239-272)
IncomingTasks == {"client_txn", "peer_txns"}

\* a submission or a peer broadcast arrives: process_incoming_transactions
\* starts on its transactions
StartIncoming(t, Batches, timeline_state, limit) ==
    /\ ~Crashed
    /\ Cardinality(InFlight) < limit
    /\ t \notin InFlight
    /\ next_tid <= MaxTid
    /\ \E transactions \in Batches :
         tasks' = [tasks EXCEPT !.at =
             WithTask(@, t, [kind |-> "incoming_transactions", pc |-> 1,
                             transactions |-> transactions,
                             timeline_state |-> timeline_state,
                             kept |-> <<>>,
                             vals |-> [i \in 1..Len(transactions) |-> ValErr],
                             validated |-> 0, added |-> 0])]
    /\ ev' = TaskEvent(t, "start")
    /\ UNCHANGED <<pool, next_tid, db, peers, scheduled, config, client, validator>>
    /\ HistSame

\* a reconfiguration notification arrives
StartConfigUpdate(Updates, limit) ==
    /\ ~Crashed
    /\ Cardinality(InFlight) < limit
    /\ "config_update" \notin InFlight
    /\ \E config_update \in Updates :
         tasks' = [tasks EXCEPT !.at =
             WithTask(@, "config_update", [kind |-> "config_update", pc |-> 1,
                                           config_update |-> config_update])]
    /\ ev' = TaskEvent("config_update", "start")
    /\ UNCHANGED <<pool, next_tid, db, peers, scheduled, config, client, validator>>
    /\ HistSame

\* a restart of the validator has begun and has not returned
RestartInProgress ==
    \E t \in InFlight : tasks.at[t].kind = "config_update" /\ instr(t) = "restart_end"

\* process_incoming_transactions, one step of task t.  RwLock::read waits
\* while a writer holds the lock; the read guard lives as long as the call
\* of validate_transaction it was taken for.
IncomingStep(t, ValSet) ==
    /\ ~Crashed
    /\ t \in InFlight
    /\ tasks.at[t].kind = "incoming_transactions"
    /\ LET me == tasks.at[t]
           i == instr(t)
           vl == tasks.validator_lock
       IN  /\ i \in {"storage_read", "validator_read", "validate_transaction",
                     "add_txn", "notify", "reply"}
           /\ i = "add_txn" => tasks.lock = t
           /\ i = "validator_read" => vl.writer = "free"
           /\ \E v \in ValSet :
              LET k == IF i = "validate_transaction" THEN me.kept[me.validated + 1]
                       ELSE me.kept[me.added + 1]
                  r == IF i = "add_txn"
                       THEN insert_validated(<<k>>, me.vals, me.timeline_state, 1,
                                [statuses |-> <<>>, pool |-> pool, next_tid |-> next_tid])
                       ELSE [pool |-> pool, next_tid |-> next_tid]
                  rec == CASE i = "storage_read" ->
                                [me EXCEPT !.kept = prefilter_kept(me.transactions, db, 1)]
                           [] i = "validate_transaction" ->
                                [me EXCEPT !.vals[k.orig + 1] = v, !.validated = @ + 1]
                           [] i = "add_txn" -> [me EXCEPT !.added = @ + 1]
                           [] OTHER -> me
              IN  /\ pool' = r.pool
                  /\ next_tid' = r.next_tid
                  /\ tasks' = [tasks EXCEPT
                        !.at = Advanced(@, t, rec),
                        !.validator_lock.readers =
                            CASE i = "validator_read" -> @ \cup {t}
                              [] i = "validate_transaction" -> @ \ {t}
                              [] OTHER -> @]
                  /\ ev' = IF i = "validate_transaction"
                           THEN [type |-> "task_step", task |-> t, instr |-> i,
                                 validated_by |-> validator,
                                 during_restart |-> RestartInProgress]
                           ELSE TaskEvent(t, i)
    /\ UNCHANGED <<db, peers, scheduled, config, client, validator>>
    /\ HistSame

\* process_config_update, step by step.  RwLock::write waits until no reader
\* and no writer holds the lock; the write guard lives as long as the call
\* of restart.
ConfigUpdateStep ==
    /\ ~Crashed
    /\ "config_update" \in InFlight
    /\ LET me == tasks.at["config_update"]
           i == instr("config_update")
           vl == tasks.validator_lock
       IN  /\ i \in {"validator_write", "restart_begin", "restart_end"}
           /\ i = "validator_write" => vl.readers = {} /\ vl.writer = "free"
           /\ \E restart_ok \in BOOLEAN :
                validator' =
                    IF i = "restart_end"
                    THEN process_config_update(validator, me.config_update,
                                               restart_ok).validator
                    ELSE validator
           /\ tasks' = [tasks EXCEPT
                 !.at = Advanced(@, "config_update", me),
                 !.validator_lock.writer =
                     CASE i = "validator_write" -> "config_update"
                       [] i = "restart_end" -> "free"
                       [] OTHER -> @]
           /\ ev' = TaskEvent("config_update", i)
    /\ UNCHANGED <<pool, next_tid, db, peers, scheduled, config, client>>
    /\ HistSame

----------------------------------------------------------------------------
(* The coordinator: broadcasts, ACKs, ingress and commits for every peer *)

\* One transaction per sender; the timeline starts at 1, a peer's
\* timeline_id of 0 standing for "nothing sent yet".
SysTxns == Txns(0, {1})

Init ==
    /\ InitCommon
    /\ next_tid = FirstTimelineId
    /\ db = [s \in Senders |-> 0]
    /\ config = MempoolConfig(2, 2, 2)

Next ==
    \/ \E p \in Peers : ExecuteBroadcast(p)
    \/ \E p \in Peers : ReceiveAck(p)
    \/ ProcessTransactionBroadcast({<<t>> : t \in SysTxns}, SysVals, MaxTid)
    \/ ProcessStateSyncRequest(SysTxns, {0}, AllAlive)
    \/ \E p \in Peers : PeerEvent(p)

Spec == Init /\ [][Next]_vars

----------------------------------------------------------------------------
(* The ingress pipeline alone: client submissions and peer broadcasts with   *)
(* every outcome of the account lookup and of the validator                  *)

IngressTxns == Txns(MaxSeq, {1})

IngressConfigs == {MempoolConfig(1, 1, 2), MempoolConfig(2, 2, 2)}

InitIngress ==
    /\ InitCommon
    /\ next_tid = FirstTimelineId
    /\ db \in {[s \in Senders |-> IF s = "A" THEN a ELSE 0] : a \in {NoAccount, 1}}
    /\ config \in IngressConfigs

NextIngress ==
    \/ ProcessTransactionBroadcast(SeqsUpTo(IngressTxns, MaxBatchIn), IngressVals, MaxTid)
    \/ ProcessClientSubmission(IngressTxns, IngressVals, MaxTid, AllAlive)
    \/ ProcessStateSyncRequest(IngressTxns, {0}, AllAlive)

SpecIngress == InitIngress /\ [][NextIngress]_vars

----------------------------------------------------------------------------
(* The pool under ingress, consensus and state sync: submissions, block      *)
(* pulls, rejections and commits with expiration times and block timestamps  *)

MaxTime == 2         \* expiration times 1 and MaxTime, clock readings 0..MaxTime

PoolTxns == Txns(MaxSeq, {1, MaxTime})

PoolVals == {ValOk(1, 0)}

\* the transactions consensus names in a request: one per pointer
PoolPointers == Txns(MaxSeq, {1})

\* the transactions a GetBlock request excludes: none, or sequence 0 of A
PoolExcludes == {{}, {t \in PoolPointers : t.sender = "A" /\ t.seq = 0}}

InitPool ==
    /\ InitCommon
    /\ next_tid = FirstTimelineId
    /\ db = [s \in Senders |-> 0]
    /\ config = MempoolConfig(3, 2, 2)

NextPool ==
    \/ ProcessClientSubmission(PoolTxns, PoolVals, MaxTid, AllAlive)
    \/ ProcessTransactionBroadcast({<<t>> : t \in PoolTxns}, PoolVals, MaxTid)
    \/ ProcessConsensusGetBlock(0..2, PoolExcludes, 0..MaxTime, AllAlive)
    \/ ProcessConsensusReject(PoolPointers, AllAlive)
    \/ ProcessStateSyncRequest(PoolPointers, 0..MaxTime, AllAlive)

SpecPool == InitPool /\ [][NextPool]_vars

\* the same with client submissions as the only way into the pool
NextSubmit ==
    \/ ProcessClientSubmission(PoolTxns, PoolVals, MaxTid, AllAlive)
    \/ ProcessConsensusGetBlock(0..2, PoolExcludes, 0..MaxTime, AllAlive)
    \/ ProcessConsensusReject(PoolPointers, AllAlive)
    \/ ProcessStateSyncRequest(PoolPointers, 0..MaxTime, AllAlive)

SpecSubmit == InitPool /\ [][NextSubmit]_vars

----------------------------------------------------------------------------
(* Out-of-order admission: client submissions of sequences 0..MaxChainSeq    *)
(* in every order, into a pool that nothing leaves but by eviction           *)

MaxChainSeq == 2     \* sequence numbers submitted: 0..MaxChainSeq

ChainTxns == Txns(MaxChainSeq, {1})

InitChain ==
    /\ InitCommon
    /\ next_tid = FirstTimelineId
    /\ db = [s \in Senders |-> 0]
    /\ config = MempoolConfig(3, 3, 2)

\* every pointer can be given an id
NextChain ==
    ProcessClientSubmission(ChainTxns, {ValOk(1, 0)}, Cardinality(ChainTxns), AllAlive)

SpecChain == InitChain /\ [][NextChain]_vars

----------------------------------------------------------------------------
(* Replies: the requests of clients, consensus and state sync, each with a   *)
(* reply receiver that is alive or was dropped before the reply              *)

NextReplies ==
    \/ ProcessClientSubmission(PoolTxns, PoolVals, MaxTid, BOOLEAN)
    \/ ProcessConsensusGetBlock(0..2, PoolExcludes, 0..MaxTime, BOOLEAN)
    \/ ProcessConsensusReject(PoolPointers, BOOLEAN)
    \/ ProcessStateSyncRequest(PoolPointers, 0..MaxTime, BOOLEAN)

SpecReplies == InitPool /\ [][NextReplies]_vars

----------------------------------------------------------------------------
(* Reconfiguration: on-chain config updates whose restart succeeds or fails, *)
(* among submissions, broadcasts and consensus requests                      *)

MaxConfig == 1       \* on-chain configs 0..MaxConfig

NextReconfig ==
    \/ ProcessConfigUpdate(0..MaxConfig)
    \/ ProcessClientSubmission(SysTxns, SysVals, MaxTid, AllAlive)
    \/ \E p \in Peers : ExecuteBroadcast(p)
    \/ ProcessConsensusGetBlock({1}, {{}}, {0}, AllAlive)

SpecReconfig == Init /\ [][NextReconfig]_vars

----------------------------------------------------------------------------
(* Concurrent tasks: a client submission, a commit, a GetBlock and a         *)
(* broadcast, at most MaxInFlight of them at a time, step by step            *)

MaxInFlight == 2     \* tasks in flight at the same time

NextTasks ==
    \/ StartTask(SysTxns, MaxInFlight)
    \/ \E t \in InFlight : TaskLock(t)
    \/ \E t \in InFlight : TaskUnlock(t)
    \/ IngressStep(SysVals)
    \/ CommitStep
    \/ GetBlockStep({1}, {0})
    \/ BroadcastStep

SpecTasks == Init /\ [][NextTasks]_vars

----------------------------------------------------------------------------
(* A peer broadcast of two transactions and a client submission, inserted    *)
(* one transaction per step, among commits, rejects, GetBlock requests and   *)
(* broadcasts                                                                *)

\* the broadcasts of two different transactions
PeerBatches == {<<a, b>> : a \in SysTxns, b \in SysTxns} \ {<<a, a>> : a \in SysTxns}

\* the transactions of sender A and of sender B
TxnsOf(sender) == {t \in SysTxns : t.sender = sender}

NextBatch ==
    \/ StartIncoming("peer_txns", PeerBatches, "Ready", MaxInFlight)
    \/ StartIncoming("client_txn", {<<t>> : t \in TxnsOf("A")}, "NotReady", MaxInFlight)
    \/ StartCommit(TxnsOf("A"), MaxInFlight)
    \/ StartReject(TxnsOf("B"), MaxInFlight)
    \/ StartGetBlock(MaxInFlight)
    \/ StartBroadcast(MaxInFlight)
    \/ \E t \in InFlight : TaskLock(t)
    \/ \E t \in InFlight : TaskUnlock(t)
    \/ \E t \in IncomingTasks : IncomingStep(t, SysVals)
    \/ CommitStep
    \/ RejectStep
    \/ GetBlockStep({1}, {0})
    \/ BroadcastStep

SpecBatch == Init /\ [][NextBatch]_vars

----------------------------------------------------------------------------
(* Validation and reconfiguration: ingress tasks and a restart of the        *)
(* validator, step by step, under the validator's read/write lock            *)

NextValidator ==
    \/ StartIncoming("peer_txns", PeerBatches, "Ready", MaxInFlight)
    \/ StartIncoming("client_txn", {<<t>> : t \in SysTxns}, "NotReady", MaxInFlight)
    \/ StartConfigUpdate(0..MaxConfig, MaxInFlight)
    \/ \E t \in InFlight : TaskLock(t)
    \/ \E t \in InFlight : TaskUnlock(t)
    \/ \E t \in IncomingTasks : IncomingStep(t, SysVals)
    \/ ConfigUpdateStep

SpecValidator == Init /\ [][NextValidator]_vars

----------------------------------------------------------------------------
(* Gossip to a peer that stays picked and alive, with batches of one and of  *)
(* two transactions, among commits, rejections and the expiry GC             *)

GossipConfigs == {MempoolConfig(2, 2, 1), MempoolConfig(2, 2, 2)}

InitGossip ==
    /\ InitCommon
    /\ next_tid = FirstTimelineId
    /\ db = [s \in Senders |-> 0]
    /\ config \in GossipConfigs

NextGossip ==
    \/ \E p \in Peers : ExecuteBroadcast(p)
    \/ \E p \in Peers : ReceiveAck(p)
    \/ ProcessTransactionBroadcast({<<t>> : t \in SysTxns}, SysVals, MaxTid)
    \/ ProcessStateSyncRequest(SysTxns, {0, 1}, AllAlive)
    \/ ProcessConsensusReject(SysTxns, AllAlive)
    \/ ProcessConsensusGetBlock({1}, {{}}, {0, 1}, AllAlive)

SpecGossip == InitGossip /\ [][NextGossip]_vars

----------------------------------------------------------------------------
(* The gRPC client: submit_transaction, get_with_proof_sync and get_balance, *)
(* one attempt per step, the answers of the server drawn from GrpcResults    *)

MaxAccountSeq == 1   \* submissions start while sequence_number <= MaxAccountSeq

\* the first attempt of a call (lines 64-66, 171-173, 221-222)
ClientCall(Methods) ==
    /\ client.pc \in {"idle", "done"}
    /\ client.sequence_number <= MaxAccountSeq
    /\ \E method \in Methods : \E r \in attempt_results(method) :
        client' =
            IF r = CallNotStarted
            THEN [client EXCEPT !.method = method, !.pc = "done", !.resp = r,
                                !.try_cnt = 0, !.attempts = 0, !.outcome = "Err"]
            ELSE [client EXCEPT !.method = method, !.pc = "loop", !.resp = r,
                                !.try_cnt = 0, !.attempts = 1, !.outcome = "none"]
    /\ UNCHANGED <<pool, next_tid, db, peers, scheduled, ev, hist, config, validator,
                   tasks>>

\* one evaluation of `while Self::need_to_retry(&mut try_cnt, &resp)` and,
\* when it says so, the next attempt (lines 67-69, 174-176, 223-225);
\* otherwise the rest of the function (70-101, 178, 227-228)
ClientLoop ==
    /\ client.pc = "loop"
    /\ LET n == need_to_retry(client.try_cnt, client.resp)
           accepted == client.resp = "Ok_Accepted"
       IN  IF n.retry
           THEN \E r \in attempt_results(client.method) :
                 client' =
                    IF r = CallNotStarted
                    THEN [client EXCEPT !.pc = "done", !.resp = r,
                                        !.try_cnt = n.try_cnt, !.outcome = "Err"]
                    ELSE [client EXCEPT !.resp = r, !.try_cnt = n.try_cnt,
                                        !.attempts = @ + 1]
           ELSE client' =
                    [client EXCEPT
                        !.pc = "done", !.try_cnt = n.try_cnt,
                        !.outcome = IF accepted THEN "Ok" ELSE "Err",
                        !.sequence_number =
                            IF accepted /\ client.method = "submit_transaction"
                            THEN @ + 1 ELSE @]
    /\ UNCHANGED <<pool, next_tid, db, peers, scheduled, ev, hist, config, validator,
                   tasks>>

NextGrpc ==
    \/ ClientCall(GrpcMethods)
    \/ ClientLoop

SpecGrpc == Init /\ [][NextGrpc]_vars

----------------------------------------------------------------------------
(* Gossip under fair scheduling: the broadcast of a peer keeps firing (each  *)
(* execution schedules the next one) and its sends do not fail forever       *)

InitLive ==
    /\ InitCommon
    /\ next_tid = FirstTimelineId
    /\ db = [s \in Senders |-> 0]
    /\ config = MempoolConfig(2, 2, 1)

NextLive ==
    \/ \E p \in Peers : ExecuteBroadcast(p)
    \/ \E p \in Peers : ReceiveAck(p)
    \/ ProcessTransactionBroadcast({<<t>> : t \in SysTxns}, SysVals, MaxTid)
    \/ ProcessStateSyncRequest(SysTxns, {0}, AllAlive)

\* a tick of the peer whose send, if it comes to one, goes through
BroadcastThrough(p) == ExecuteBroadcast(p) /\ ev'.path # "send_fail"

SpecLive ==
    InitLive /\ [][NextLive]_vars /\ \A p \in Peers : WF_vars(BroadcastThrough(p))

----------------------------------------------------------------------------
(* Validation: one transaction per request, every answer of the validator    *)

\* a plain answer, a better-ranked answer of a privileged role, a discard
\* and a failure of the validator
ValidationVals == {ValOk(1, 0), ValOk(2, 1), ValDiscard, ValErr}

NextValidation ==
    \/ ProcessClientSubmission(IngressTxns, ValidationVals, MaxTid, AllAlive)
    \/ ProcessTransactionBroadcast({<<t>> : t \in IngressTxns}, ValidationVals, MaxTid)
    \/ ProcessStateSyncRequest(IngressTxns, {0}, AllAlive)

SpecValidation == InitIngress /\ [][NextValidation]_vars

----------------------------------------------------------------------------
(* gen_ack_response on every result vector up to MaxLen *)

AckResults == SeqsUpTo({[status |-> SubmissionStatus(c, "None")] : c \in MempoolStatusCode},
                       MaxLen)

GenAck ==
    /\ ev = NoEvent
    /\ \E results \in AckResults :
        ev' = [type |-> "gen_ack", results |-> results,
               ack |-> gen_ack_response(to_bytes(<<0, Len(results)>>), results)]
    /\ UNCHANGED <<pool, next_tid, db, peers, scheduled, hist, config, client, validator, tasks>>

SpecAck == Init /\ [][GenAck]_vars

----------------------------------------------------------------------------
(* Claims on the ingress pipeline and the ACK it produces *)

RetryableCodes == {"TooManyTransactions", "MempoolIsFull"}

\* C1: every index in the retry_txns of the ACK of a peer broadcast is the
\* zero-based position, in the original broadcast, of a transaction whose
\* status code was TooManyTransactions or MempoolIsFull; for every mix of
\* lookup failures, too-old sequences, validator rejections and insertions
\* (the validator answered every call, so every transaction has a status).
C1_RetryIndexIsOriginalPosition ==
    (ev.type = "peer_txns" /\ Len(ev.results) = Len(ev.transactions)) =>
        \A i \in Range(ev.ack.retry_txns) :
            /\ i < Len(ev.transactions)
            /\ \E k \in 1..Len(ev.results) :
                  /\ ev.results[k].orig = i
                  /\ ev.results[k].status.code \in RetryableCodes

\* C2: process_incoming_transactions returns exactly one status per input
\* transaction (one per input position), so a client submission gets exactly
\* one reply and an ACK is computed from as many results as transactions.
C2_OneStatusPerTransaction ==
    /\ ev.type \in {"peer_txns", "client_txn"} =>
          /\ Len(ev.results) = Len(ev.transactions)
          /\ \A i \in 0..(Len(ev.transactions) - 1) :
                Cardinality({k \in 1..Len(ev.results) : ev.results[k].orig = i}) = 1
    /\ ev.type = "client_txn" => Len(ev.replies) = 1

\* C3: a result is listed in retry_txns if and only if its code is
\* TooManyTransactions or MempoolIsFull.
C3_RetryIffRetryableCode ==
    ev.type = "gen_ack" =>
        /\ \A i \in 0..(Len(ev.results) - 1) :
              (i \in Range(ev.ack.retry_txns))
                  <=> (ev.results[i + 1].status.code \in RetryableCodes)
        /\ Range(ev.ack.retry_txns) \subseteq 0..(Len(ev.results) - 1)
        /\ Cardinality(Range(ev.ack.retry_txns)) = Len(ev.ack.retry_txns)

C3_Witness ==
    /\ ev.type = "gen_ack"
    /\ Len(ev.results) = 3
    /\ ev.results[1].status.code = "Accepted"
    /\ ev.results[2].status.code = "TooManyTransactions"
    /\ ev.results[3].status.code = "InvalidUpdate"
    /\ ev.ack.retry_txns = <<1>>

\* C4: the backoff flag of an ACK is true if and only if at least one result
\* has code MempoolIsFull, wherever it stands in the batch.
C4_BackoffIffMempoolIsFull ==
    ev.type = "gen_ack" =>
        (ev.ack.backoff <=>
            \E i \in 1..Len(ev.results) : ev.results[i].status.code = "MempoolIsFull")

C4_Witness ==
    /\ ev.type = "gen_ack"
    /\ Len(ev.results) = 3
    /\ ev.results[1].status.code = "TooManyTransactions"
    /\ ev.results[2].status.code = "Accepted"
    /\ ev.results[3].status.code = "MempoolIsFull"
    /\ ev.ack.backoff

----------------------------------------------------------------------------
(* Claims on the broadcast scheduler and the peer state *)

Last(q) == q[Len(q)]

BackoffScheduled(sb) ==
    sb.backoff /\ sb.interval_ms = "shared_mempool_backoff_interval_ms"

\* C5 (as claimed): once an ACK with backoff = true from a peer was processed,
\* every broadcast scheduled for that peer is a backoff broadcast with the
\* backoff interval, until an ACK with backoff = false is processed; on
\* every path of execute_broadcast.
C5_BackoffSticky_AnyPath ==
    (ev.type = "broadcast" /\ ev.path # "panic" /\ hist[ev.peer].ack_backoff = "on")
        => BackoffScheduled(Last(scheduled[ev.peer]))

\* C5 (amended): the same for every tick that finds the peer picked; a tick
\* that finds it not picked schedules a non-backoff broadcast with the tick
\* interval.
C5_BackoffSticky_Picked ==
    (ev.type = "broadcast" /\ ev.path # "panic" /\ hist[ev.peer].ack_backoff = "on")
        => IF ev.path = "not_picked"
           THEN Last(scheduled[ev.peer]) = next_scheduled(FALSE)
           ELSE BackoffScheduled(Last(scheduled[ev.peer]))

C5_Witness ==
    /\ ev.type = "broadcast"
    /\ ev.path = "sent"
    /\ hist[ev.peer].ack_backoff = "on"
    /\ BackoffScheduled(Last(scheduled[ev.peer]))

\* C6 (as claimed): a broadcast dispatched as non-backoff that fires while the
\* peer's backoff_mode is true sends nothing, records no batch, leaves
\* timeline_id alone, and schedules a backoff broadcast next.
C6_StaleDispatchDropped_Any ==
    [][(ev'.type = "broadcast" /\ ~ev'.backoff /\ peers[ev'.peer].backoff_mode)
          => /\ ~ev'.attempted
             /\ peers'[ev'.peer].sent_batches = peers[ev'.peer].sent_batches
             /\ peers'[ev'.peer].timeline_id = peers[ev'.peer].timeline_id
             /\ Last(scheduled'[ev'.peer]).backoff]_vars

\* C6 (amended): it sends nothing, records no batch and leaves timeline_id
\* alone; the broadcast it schedules next is a backoff broadcast if the peer
\* is picked, and a non-backoff one if it is not.
C6_StaleDispatchDropped_Picked ==
    [][(ev'.type = "broadcast" /\ ~ev'.backoff /\ peers[ev'.peer].backoff_mode)
          => /\ ~ev'.attempted
             /\ peers'[ev'.peer].sent_batches = peers[ev'.peer].sent_batches
             /\ peers'[ev'.peer].timeline_id = peers[ev'.peer].timeline_id
             /\ Last(scheduled'[ev'.peer]).backoff = peers[ev'.peer].picked]_vars

C6_Witness ==
    /\ ev.type = "broadcast"
    /\ ev.path = "dropped"
    /\ ~ev.backoff
    /\ peers[ev.peer].backoff_mode
    /\ peers[ev.peer].is_alive
    /\ ReadyEntries(pool) # {}
    /\ Last(scheduled[ev.peer]).backoff

\* C7: a failed network send leaves the peer state as it was (timeline_id,
\* sent_batches, total_retry_txns, backoff_mode), notifies no subscriber, and
\* execute_broadcast still schedules the next tick.
C7_SendFailureKeepsPeerState ==
    [][(ev'.type = "broadcast" /\ ev'.path = "send_fail")
          => /\ peers' = peers
             /\ ~ev'.notified
             /\ ~Crashed'
             /\ Len(scheduled'[ev'.peer]) = Len(scheduled[ev'.peer])
             /\ Len(scheduled'[ev'.peer]) >= 1
             /\ Last(scheduled'[ev'.peer]) = next_scheduled(peers[ev'.peer].backoff_mode)]_vars

C7_Witness ==
    /\ ev.type = "broadcast"
    /\ ev.path = "send_fail"
    /\ Len(ev.batch.ids) = 2
    /\ peers[ev.peer].sent_batches # <<>>
    /\ peers[ev.peer].total_retry_txns # {}

\* C8 (as claimed): after a tick whose send failed, the next tick for that
\* peer sends the same batch with the same batch_id.
C8_ResendAfterFailure_Always ==
    [][(ev'.type = "broadcast" /\ hist[ev'.peer].fail # NoBatch)
          => (ev'.attempted /\ ev'.batch = hist[ev'.peer].fail)]_vars

\* C8 (amended): it does when neither the pool nor the peer's state changed
\* between the two ticks.
C8_ResendAfterFailure_Unchanged ==
    [][(ev'.type = "broadcast" /\ hist[ev'.peer].fail # NoBatch /\ hist[ev'.peer].clean)
          => (ev'.attempted /\ ev'.batch = hist[ev'.peer].fail)]_vars

C8_Witness ==
    /\ ev.type = "broadcast"
    /\ ev.after_clean_fail
    /\ ev.path = "sent"
    /\ Len(ev.batch.ids) = 2

\* the timeline ids of the (id, txn) pairs put on the wire
SentIds(rec) == [i \in 1..Len(rec.sent) |-> rec.sent[i].id]

\* C9: after a successful send, sent_batches holds the entry
\* batch_id = (timeline_id before, new_timeline_id of the timeline read) with
\* exactly the timeline ids of the transmitted transactions, and the peer's
\* timeline_id is new_timeline_id.
C9_SentBatchRecorded ==
    [][(ev'.type = "broadcast" /\ ev'.path = "sent")
          => LET p == ev'.peer
                 old == peers[p]
                 new_timeline_id == fresh_part(pool, old, retry_part(pool, old)).new_after
                 bid == <<old.timeline_id, new_timeline_id>>
             IN  /\ bid \in DOMAIN peers'[p].sent_batches
                 /\ ev'.batch.batch_id = bid
                 /\ peers'[p].sent_batches[bid].timeline_ids = SentIds(peers'[p].sent_batches[bid])
                 /\ peers'[p].sent_batches[bid].timeline_ids = ev'.batch.ids
                 /\ Len(ev'.batch.ids) >= 1
                 /\ peers'[p].timeline_id = new_timeline_id]_vars

C9_Witness ==
    /\ ev.type = "broadcast"
    /\ ev.path = "sent"
    /\ ev.batch.batch_id = <<0, 2>>
    /\ peers[ev.peer].timeline_id = 2
    /\ <<0, 2>> \in DOMAIN peers[ev.peer].sent_batches
    /\ peers[ev.peer].sent_batches[<<0, 2>>].timeline_ids = <<1, 2>>

\* C10: when an ACK for a known in-flight batch is processed, each retry
\* index stands for the timeline id transmitted at that position of the
\* batch, the ids added to total_retry_txns are among the batch's transmitted
\* ids, and the batch record is removed.
C10_AckRetryIndicesDecode ==
    [][(ev'.type = "ack" /\ ev'.known)
          => LET p == ev'.peer
                 b == ev'.batch_id
                 sb == peers[p].sent_batches
                 rec == sb[b]
                 added == {rec.sent[i + 1].id :
                             i \in {j \in Range(ev'.retry_txns) : j + 1 <= Len(rec.sent)}}
             IN  /\ b \in DOMAIN sb
                 /\ peers'[p].total_retry_txns = peers[p].total_retry_txns \cup added
                 /\ added \subseteq Range(SentIds(rec))
                 /\ DOMAIN peers'[p].sent_batches = DOMAIN sb \ {b}
                 /\ \A c \in DOMAIN sb \ {b} : peers'[p].sent_batches[c] = sb[c]
                 /\ peers'[p].timeline_id = peers[p].timeline_id]_vars

C10_Witness ==
    /\ ev.type = "ack"
    /\ ev.known
    /\ ev.batch_id = <<0, 2>>
    /\ ev.retry_txns = <<1>>
    /\ ~ev.backoff
    /\ peers[ev.peer].total_retry_txns = {2}
    /\ peers[ev.peer].timeline_id = 2
    /\ peers[ev.peer].sent_batches = <<>>
    /\ ~peers[ev.peer].backoff_mode

----------------------------------------------------------------------------
(* Claims on ACK processing and the batches in flight *)

\* C11 (as claimed): processing an ACK for a known batch sets the peer's
\* backoff_mode to the ACK's backoff value, and the next broadcast that fires
\* for the peer works with that value: the broadcast it schedules carries it.
C11_AckSetsBackoffMode_AnyTick ==
    [][/\ (ev'.type = "ack" /\ ev'.known)
            => peers'[ev'.peer].backoff_mode = ev'.backoff
       /\ (ev'.type = "broadcast" /\ ev'.path # "panic"
              /\ hist[ev'.peer].ack_backoff # "none")
            => Last(scheduled'[ev'.peer]).backoff = (hist[ev'.peer].ack_backoff = "on")]_vars

\* C11 (amended): the same for the next broadcast that fires while the peer
\* is picked (the only ones that load the peer state): it drops a stale
\* non-backoff dispatch exactly when the value is true, and the broadcast it
\* schedules carries the value.
C11_AckSetsBackoffMode ==
    [][/\ (ev'.type = "ack" /\ ev'.known)
            => peers'[ev'.peer].backoff_mode = ev'.backoff
       /\ (ev'.type = "broadcast" /\ ev'.path \notin {"not_picked", "panic"}
              /\ hist[ev'.peer].ack_backoff # "none")
            => LET value == hist[ev'.peer].ack_backoff = "on" IN
               /\ Last(scheduled'[ev'.peer]) = next_scheduled(value)
               /\ (peers[ev'.peer].is_alive /\ ~ev'.backoff)
                     => (value <=> ev'.path = "dropped")
               /\ ev'.backoff => ev'.path # "dropped"]_vars

C11_Witness ==
    /\ ev.type = "broadcast"
    /\ ev.backoff
    /\ ev.path = "sent"
    /\ hist[ev.peer].ack_backoff = "off"
    /\ Last(scheduled[ev.peer]) = next_scheduled(FALSE)

\* C12: a BatchId recorded in a peer's sent_batches stays there, with the
\* batch recorded under it, until that peer ACKs it or the peer becomes
\* unreachable; no other step (a later broadcast, a pool change) removes or
\* overwrites it.
C12_SentBatchStaysUntilAck ==
    [][\A p \in Peers : \A b \in DOMAIN peers[p].sent_batches :
          \/ (ev'.type = "ack" /\ ev'.peer = p /\ ev'.batch_id = b)
          \/ (peers[p].is_alive /\ ~peers'[p].is_alive)
          \/ /\ b \in DOMAIN peers'[p].sent_batches
             /\ peers'[p].sent_batches[b] = peers[p].sent_batches[b]]_vars

----------------------------------------------------------------------------
(* Claims on the consensus and state-sync interface *)

\* the Ready entries of the pool a block may be made of, given the pointers
\* consensus excludes
BlockCandidates(transactions) ==
    {e \in ReadyEntries(pool) : <<e.sender, e.seq>> \notin exclude_transactions(transactions)}

\* C13: the reply to GetBlock(max_size, exclude_txns) holds at most
\* max(max_size, 1) transactions, none of them with a (sender, sequence) of
\* exclude_txns; a request with max_size = 0 is served as one of size 1.
C13_GetBlockBounded ==
    ev.type = "get_block" =>
        /\ ev.resp.kind = "GetBlockResponse"
        /\ Len(ev.resp.txns) <= (IF ev.max_block_size >= 1 THEN ev.max_block_size ELSE 1)
        /\ \A i \in 1..Len(ev.resp.txns) :
              <<ev.resp.txns[i].sender, ev.resp.txns[i].seq>>
                  \notin exclude_transactions(ev.transactions)
        /\ (ev.max_block_size = 0 /\ BlockCandidates(ev.transactions) # {})
              => Len(ev.resp.txns) = 1

\* a request of size 0 answered with one transaction while another Ready
\* entry is held back by the exclusion set
C13_Witness ==
    /\ ev.type = "get_block" /\ ev.max_block_size = 0
    /\ Len(ev.resp.txns) = 1
    /\ \E e \in ReadyEntries(pool) :
          <<e.sender, e.seq>> \in exclude_transactions(ev.transactions)

\* C14: after gc_by_expiration_time(T), run by a GetBlock with T the current
\* time and by a state-sync commit with T = block_timestamp_usecs > 0, no live
\* entry has expiration <= T; the reply to a GetBlock holds no transaction
\* that had expired when the request took the lock.
C14_NoExpiredAfterGc ==
    /\ ev.type = "get_block" =>
          /\ \A e \in pool : e.exp > ev.curr_time
          /\ \A i \in 1..Len(ev.resp.txns) : ev.resp.txns[i].exp > ev.curr_time
    /\ (ev.type = "commit" /\ ev.block_timestamp_usecs > 0) =>
          \A e \in pool : e.exp > ev.block_timestamp_usecs

\* a GetBlock whose GC collected an entry and whose reply is made of a
\* later-expiring one
C14_Witness ==
    /\ ev.type = "get_block" /\ ev.curr_time >= 1 /\ ev.expired >= 1
    /\ Len(ev.resp.txns) >= 1

\* C15: GetBlock does not consume: every entry not expired at the time of the
\* request is live after it with the same timeline state and timeline id, and
\* a GetBlock that follows another with the same arguments, with no pool
\* change and no expiry in between, gets the same block.
C15_GetBlockDoesNotConsume ==
    [][ev'.type = "get_block" =>
          /\ \A e \in pool : e.exp > ev'.curr_time => e \in pool'
          /\ (/\ ev.type = "get_block"
              /\ ev.max_block_size = ev'.max_block_size
              /\ ev.transactions = ev'.transactions
              /\ \A e \in pool : e.exp > ev'.curr_time)
                => ev'.resp.txns = ev.resp.txns]_vars

\* a block was pulled and each of its transactions is still a Ready entry
C15_Witness ==
    /\ ev.type = "get_block" /\ Len(ev.resp.txns) = 2
    /\ \A i \in 1..Len(ev.resp.txns) :
          \E e \in ReadyEntries(pool) : TxnOf(e) = ev.resp.txns[i]

\* C16: after a RejectNotification for (sender, seq) no entry of that sender
\* with a sequence >= seq is live; entries of other senders and of lower
\* sequences are untouched, no expiry GC is run, and the reply is an empty
\* commit ACK.
C16_RejectRemovesSuffix ==
    [][ev'.type = "reject" =>
          LET t == ev'.transactions[1] IN
          /\ pool' = {e \in pool : ~(e.sender = t.sender /\ e.seq >= t.seq)}
          /\ ev'.resp = [kind |-> "CommitResponse", txns |-> <<>>]]_vars

\* sequence 0 of a sender was rejected while its sequence 1 and an entry of
\* the other sender were in the pool: only the latter is left
C16_Witness ==
    /\ ev.type = "reject" /\ ev.transactions[1].seq = 0 /\ ev.removed = 2
    /\ Cardinality(pool) = 1
    /\ \A e \in pool : e.sender # ev.transactions[1].sender

\* C17: a state-sync commit of (sender, seq) removes exactly that pointer:
\* higher sequences of the sender and the other senders' entries stay unless
\* their own expiration is <= block_timestamp_usecs, and the expiry GC runs
\* if and only if block_timestamp_usecs > 0.
C17_CommitRemovesExactlyPointer ==
    [][ev'.type = "commit" =>
          LET t == ev'.transactions[1]
              ts == ev'.block_timestamp_usecs
          IN  \A e \in pool :
                 e \in pool' <=>
                    /\ ~(e.sender = t.sender /\ e.seq = t.seq)
                    /\ ~(ts > 0 /\ e.exp <= ts)]_vars

\* sequence 0 of a sender was committed with a block timestamp that expired
\* another entry, and the sender's sequence 1 is still in the pool
C17_Witness ==
    /\ ev.type = "commit" /\ ev.transactions[1].seq = 0
    /\ ev.block_timestamp_usecs > 0 /\ ev.expired = 1
    /\ \E e \in pool : e.sender = ev.transactions[1].sender /\ e.seq = 1 /\ e.ready

\* C18: whatever the interleaving of client submissions, peer broadcasts,
\* commits, rejections, GetBlock and GC, the pool never holds two live
\* entries with the same (sender, sequence).
C18_OneEntryPerPointer ==
    \A e, f \in pool : (e.sender = f.sender /\ e.seq = f.seq) => e = f

\* a pointer the pool holds was submitted again with another expiration and
\* score, and was refused
C18_Witness ==
    /\ ev.type \in {"client_txn", "peer_txns"}
    /\ Len(ev.results) = 1 /\ ev.results[1].status.code = "InvalidUpdate"
    /\ \E e \in pool :
          /\ e.sender = ev.transactions[1].sender /\ e.seq = ev.transactions[1].seq
          /\ e.exp # ev.transactions[1].exp

----------------------------------------------------------------------------
(* Claims on the timeline *)

\* what read_timeline(after_id, max) promises of its answer
ReadTimelineOk(P, after_id, max) ==
    LET r == read_timeline(P, after_id, max)
        n == Len(r.txns)
    IN  /\ n <= max
        /\ \A i \in 1..n :
              /\ r.txns[i].id > after_id
              /\ \E e \in ReadyEntries(P) : e.tid = r.txns[i].id /\ TxnOf(e) = r.txns[i].txn
        /\ \A i \in 1..(n - 1) : r.txns[i].id < r.txns[i + 1].id
        /\ r.new_after = (IF n = 0 THEN after_id ELSE r.txns[n].id)

\* C19: timeline ids are given in strictly increasing order of the
\* transition to Ready and are never reused, also after the entry has left
\* the pool; read_timeline(after_id, max) returns at most max entries with
\* strictly increasing ids, each above after_id, and the new position is the
\* largest id returned (after_id when nothing is returned).
C19_TimelineIdsIncrease ==
    [][/\ next_tid' >= next_tid
       /\ \A e \in ReadyEntries(pool') :
             /\ FirstTimelineId <= e.tid /\ e.tid < next_tid'
             /\ \A f \in ReadyEntries(pool') : e.tid = f.tid => e = f
             \* an id given in this step is above every id given before
             /\ e \notin pool => e.tid >= next_tid
       \* every pool but the empty one is the outcome of a step that changed it
       /\ pool' # pool =>
             \A after_id \in 0..MaxTid, max \in 0..MaxTid :
                ReadTimelineOk(pool', after_id, max)]_vars

\* ids 1 and 2 were given, the entry with id 1 has left the pool, and a read
\* from position 0 skips it: it returns the entry with id 2 alone
C19_Witness ==
    /\ next_tid = FirstTimelineId + 2
    /\ {e.tid : e \in ReadyEntries(pool)} = {FirstTimelineId + 1}
    /\ Len(read_timeline(pool, 0, 2).txns) = 1
    /\ read_timeline(pool, 0, 2).new_after = FirstTimelineId + 1

\* the entries a step has made Ready
NewReady == {e \in ReadyEntries(pool') : e \notin pool}

\* a transaction stays NotReady while a sequence below it is missing, and the
\* submission that fills the gap makes every bridged entry Ready, in
\* ascending sequence order with increasing timeline ids
ChainExtension ==
    /\ \A e \in pool' :
          e.ready <=> \A q \in db[e.sender]..e.seq : Find(pool', e.sender, q) # {}
    /\ next_tid' = next_tid + Cardinality(NewReady)
    /\ \A e \in NewReady :
          /\ e.sender = ev'.transactions[1].sender
          /\ e.tid = next_tid + Cardinality({f \in NewReady : f.seq < e.seq})

\* the step is the last of the submissions (A,2), (A,1), (A,0) into a pool
\* whose timeline is empty
ThreeBridged ==
    /\ next_tid = FirstTimelineId
    /\ {<<e.sender, e.seq>> : e \in NewReady} = {<<"A", 0>>, <<"A", 1>>, <<"A", 2>>}

\* the timeline after the step, read from position 0
TimelineFromZero == read_timeline(pool', 0, 10).txns

\* C20 (as claimed): a transaction beyond the contiguous Ready prefix of its
\* sender stays NotReady until the gap is filled, and the submission that
\* fills it promotes all bridged entries in ascending sequence order with
\* increasing ids; with committed sequence 0 the submissions (A,2), (A,1),
\* (A,0) end with timeline ids 0,1,2 for sequences 0,1,2 and
\* read_timeline(0,10) returns those three in that order.
C20_ChainExtension_IdsFromZero ==
    [][/\ ChainExtension
       /\ ThreeBridged =>
             /\ \A e \in NewReady : e.tid = e.seq
             /\ Len(TimelineFromZero) = 3
             /\ \A i \in 1..Len(TimelineFromZero) :
                   /\ TimelineFromZero[i].id = i - 1
                   /\ TimelineFromZero[i].txn.sender = "A"
                   /\ TimelineFromZero[i].txn.seq = i - 1]_vars

\* C20 (amended): the same, the three submissions ending with timeline ids
\* 1,2,3 for sequences 0,1,2.
C20_ChainExtension ==
    [][/\ ChainExtension
       /\ ThreeBridged =>
             /\ \A e \in NewReady : e.tid = e.seq + 1
             /\ Len(TimelineFromZero) = 3
             /\ \A i \in 1..Len(TimelineFromZero) :
                   /\ TimelineFromZero[i].id = i
                   /\ TimelineFromZero[i].txn.sender = "A"
                   /\ TimelineFromZero[i].txn.seq = i - 1]_vars

\* (A,0) was submitted last and accepted, and sequences 0,1,2 of A hold the
\* first three timeline ids
C20_Witness ==
    /\ ev.type = "client_txn" /\ ev.transactions[1].sender = "A"
    /\ ev.transactions[1].seq = 0 /\ ev.replies[1].code = "Accepted"
    /\ next_tid = FirstTimelineId + 3
    /\ \A q \in 0..2 : \E e \in ReadyEntries(pool) :
          e.sender = "A" /\ e.seq = q /\ e.tid = FirstTimelineId + q
    /\ Len(read_timeline(pool, 0, 10).txns) = 3

----------------------------------------------------------------------------
(* Claims on admission *)

\* the status codes an ingress step reported
ResultCodes(e) == {e.results[i].status.code : i \in 1..Len(e.results)}

\* C21: after any sequence of insertions through client submission and peer
\* broadcast the pool holds at most `capacity` entries; an insertion into a
\* full pool from which nothing can be evicted returns MempoolIsFull at once
\* and leaves the pool as it was.
C21_CapacityBound ==
    [][/\ Cardinality(pool') <= config.capacity
       /\ (/\ ev'.type \in {"client_txn", "peer_txns"}
           /\ "MempoolIsFull" \in ResultCodes(ev')
           /\ "Accepted" \notin ResultCodes(ev'))
             => /\ pool' = pool /\ next_tid' = next_tid
                /\ Cardinality(pool) = config.capacity
                /\ Evictable(pool) = {}]_vars

\* a submission was answered MempoolIsFull by a pool at its capacity
C21_Witness ==
    /\ ev.type \in {"client_txn", "peer_txns"}
    /\ "MempoolIsFull" \in ResultCodes(ev)
    /\ Cardinality(pool) = config.capacity

\* C23: a transaction a client submitted (timeline_state NotReady) with the
\* sequence its sender has committed, and which passed validation, is in the
\* reply of a following GetBlock that does not exclude it and has room for it,
\* unless it has expired or was committed or rejected in between.
C23_SubmittedIsPulled ==
    [][ev'.type = "get_block" =>
          \A e \in pool :
             (/\ e.seq = db[e.sender]
              /\ e.exp > ev'.curr_time
              /\ <<e.sender, e.seq>> \notin exclude_transactions(ev'.transactions)
              /\ Cardinality({x \in ReadyEntries(pool') :
                                 <<x.sender, x.seq>> \notin exclude_transactions(ev'.transactions)})
                    <= (IF ev'.max_block_size >= 1 THEN ev'.max_block_size ELSE 1))
                => \E i \in 1..Len(ev'.resp.txns) : ev'.resp.txns[i] = TxnOf(e)]_vars

\* scenario: Txn(A,0) submitted into an empty pool, then GetBlock(2, {})
\* before it expires: the reply is [Txn(A,0)]
C23_Witness ==
    /\ ev.type = "get_block" /\ ev.max_block_size = 2 /\ ev.transactions = {}
    /\ ev.expired = 0
    /\ Len(ev.resp.txns) = 1
    /\ ev.resp.txns[1].sender = "A" /\ ev.resp.txns[1].seq = 0
    /\ next_tid = FirstTimelineId + 1

\* the results an ingress step reported for the transaction at position i
ResultsAt(e, i) == {e.results[j].status : j \in {k \in 1..Len(e.results) :
                                                     e.results[k].orig = i - 1}}

\* the transaction failed the account lookup, or is older than the committed
\* sequence read
LookupFailed(t) == ~lookup_ok(db, t.sender)
TooOld(t) == lookup_ok(db, t.sender) /\ t.seq < db[t.sender]

\* C24: a transaction reaches the validator and add_txn only if the account
\* lookup of its sender succeeded and its sequence is >= the committed
\* sequence read; one whose lookup failed gets (VmError, ResourceDoesNotExist),
\* one with a lower sequence gets (VmError, SequenceNumberTooOld), and the pool
\* is not changed on behalf of either.
C24_PrefilterStatuses ==
    [][ev'.type \in {"client_txn", "peer_txns"} =>
          /\ \A i \in 1..Len(ev'.transactions) :
                LET t == ev'.transactions[i] IN
                /\ LookupFailed(t) =>
                      ResultsAt(ev', i) = {SubmissionStatus("VmError", "RESOURCE_DOES_NOT_EXIST")}
                /\ TooOld(t) =>
                      ResultsAt(ev', i) = {SubmissionStatus("VmError", "SEQUENCE_NUMBER_TOO_OLD")}
                /\ (\E st \in ResultsAt(ev', i) :
                       st.code # "VmError" \/ st.vm = "INVALID_SIGNATURE")
                      => ~LookupFailed(t) /\ ~TooOld(t)
          /\ \A e \in pool' \ pool :
                lookup_ok(db, e.sender) /\ e.seq >= db[e.sender]]_vars

\* a broadcast of two: one of an unknown account or too old, the other one
\* accepted into the pool
C24_Witness ==
    /\ ev.type = "peer_txns" /\ Len(ev.transactions) = 2
    /\ "Accepted" \in ResultCodes(ev)
    /\ \E i \in 1..2 :
          /\ LookupFailed(ev.transactions[i]) \/ TooOld(ev.transactions[i])
          /\ ResultsAt(ev, i) # {}
    /\ pool # {}

\* C25: a transaction the validator discards is answered (VmError, the
\* validator's status) and is not inserted; a transaction validated without a
\* status goes to add_txn with the validator's ranking score and governance
\* role and the committed sequence read, and its reported status is add_txn's
\* MempoolStatus with no VM status.
C25_ValidationOutcome ==
    [][(/\ ev'.type \in {"client_txn", "peer_txns"}
        /\ Len(ev'.validation_results) = 1)
          => LET t == ev'.transactions[1]
                 v == ev'.validation_results[1]
             IN  /\ v.kind = "discard" =>
                       /\ ResultsAt(ev', 1) = {SubmissionStatus("VmError", v.status)}
                       /\ pool' = pool
                 /\ v.kind = "ok" =>
                       \E r \in {add_txn(pool, next_tid, t, v.score, db[t.sender],
                                         "NotReady", v.role)} :
                          /\ ResultsAt(ev', 1) = {SubmissionStatus(r.status, "None")}
                          /\ pool' = r.pool
                          /\ r.status = "Accepted" =>
                                \E e \in pool' : /\ TxnOf(e) = t
                                                 /\ e.score = v.score /\ e.role = v.role]_vars

\* the validator ranked a transaction 2 with a privileged role, and the pool
\* took it with that score and role
C25_Witness ==
    /\ ev.type = "client_txn"
    /\ ev.validation_results = <<ValOk(2, 1)>>
    /\ ev.replies = <<SubmissionStatus("Accepted", "None")>>
    /\ \E e \in pool : TxnOf(e) = ev.transactions[1] /\ e.score = 2 /\ e.role = 1

----------------------------------------------------------------------------
(* Claims on failures that stay local *)

\* what a request has done to the pool is in place after the step
EffectInPlace ==
    /\ ev'.type = "client_txn" =>
          ("Accepted" \in ResultCodes(ev')
              => \E e \in pool' : TxnOf(e) = ev'.transactions[1])
    /\ ev'.type = "get_block" => pool' = gc_by_expiration_time(pool, ev'.curr_time)
    /\ ev'.type = "reject" =>
          pool' = {e \in pool : ~(/\ e.sender = ev'.transactions[1].sender
                                  /\ e.seq >= ev'.transactions[1].seq)}
    /\ ev'.type = "commit" =>
          /\ Find(pool', ev'.transactions[1].sender, ev'.transactions[1].seq) = {}
          /\ ev'.block_timestamp_usecs > 0
                => pool' = gc_by_expiration_time(pool', ev'.block_timestamp_usecs)

\* C28: when the receiver of the one-shot reply channel was dropped (client
\* submission, consensus request or state-sync commit) the handling task
\* still completes: its insertion, removal or GC stays in effect, nothing is
\* rolled back, and neither another task nor the coordinator is aborted.
C28_DroppedReceiverIsLocal ==
    [][ev'.type \in {"client_txn", "get_block", "reject", "commit"} =>
          /\ ev'.callback \in {"sent", "dropped", "unused"}
          /\ ~Crashed'
          /\ ev'.callback = "dropped" => EffectInPlace]_vars

\* a client went away before the reply; its transaction is in the pool
C28_Witness ==
    /\ ev.type = "client_txn" /\ ev.callback = "dropped"
    /\ ev.replies = <<SubmissionStatus("Accepted", "None")>>
    /\ \E e \in pool : TxnOf(e) = ev.transactions[1]
    /\ ~Crashed

\* C26: when restart(config_update) fails during a reconfiguration the
\* validator that was in use stays in use for the validations that follow
\* (only a restart that succeeded changes it), and the coordinator keeps
\* processing: the failure stops no submission, broadcast or consensus
\* request.
C26_ReconfigFailureIsLocal ==
    /\ [][/\ (ev'.type = "config_update" /\ ev'.restart = "err") =>
               /\ validator' = validator
               /\ ~Crashed'
               /\ UNCHANGED <<pool, next_tid, peers, scheduled>>
          /\ validator' # validator =>
               ev'.type = "config_update" /\ ev'.restart = "ok"
          /\ ev'.type = "client_txn" => ev'.validated_by = validator]_vars
    /\ []((ev.type = "config_update" /\ ev.restart = "err") =>
            /\ ENABLED ProcessClientSubmission(SysTxns, SysVals, MaxTid, AllAlive)
            /\ \A p \in Peers : ENABLED ExecuteBroadcast(p)
            /\ ENABLED ProcessConsensusGetBlock({1}, {{}}, {0}, AllAlive))

\* a restart for config 1 failed under the validator of config 0, and the
\* pool holds a transaction
C26_Witness ==
    /\ ev.type = "config_update" /\ ev.restart = "err" /\ ev.config_update = 1
    /\ validator = InitValidator
    /\ pool # {}
    /\ ~Crashed

----------------------------------------------------------------------------
(* Claims on tasks that run concurrently *)

\* a commit notification for the sender has started and has not yet been
\* applied to the pool
CommitPending(sender) ==
    /\ "commit" \in InFlight
    /\ tasks.at["commit"].transaction.sender = sender
    /\ instr("commit") \in {"lock", "commit_txns"}

\* C22: no Ready pool entry has a sequence lower than its sender's committed
\* sequence, once the commits that moved that sequence have been applied to
\* the pool; this includes the executions in which a commit for the sender
\* is processed between an ingress task's read of the committed sequence and
\* that task's add_txn under the pool lock.
C22_NoReadyBelowCommitted ==
    \A e \in ReadyEntries(pool) : e.seq >= db[e.sender] \/ CommitPending(e.sender)

\* C27: no task holds the pool lock at a suspension point or during network
\* I/O: the broadcast has released it before send_to, and ingress, the
\* consensus request and the commit have released it before any reply or
\* notification; so whoever holds the lock is at a step that waits on
\* nothing, and a send that is slow or fails keeps nobody off the lock.
C27_NoLockAcrossSuspension ==
    /\ tasks.lock # "free" => tasks.lock \in InFlight
    /\ \A t \in InFlight : IsSuspensionOrIo(instr(t)) => tasks.lock # t

\* the broadcast is at its send_to while a GetBlock holds the pool lock
C27_Witness ==
    /\ "broadcast" \in InFlight /\ instr("broadcast") = "send_to"
    /\ "get_block" \in InFlight /\ instr("get_block") = "get_block"
    /\ tasks.lock = "get_block"

----------------------------------------------------------------------------
(* Claims on the broadcast of one tick *)

C30_QuietBroadcast ==
    [][(/\ ev'.type = "broadcast"
        /\ (~is_picked_peer(peers, ev'.peer) \/ ~peers[ev'.peer].is_alive)) =>
          /\ ~ev'.attempted /\ ~ev'.notified /\ ev'.batch = NoBatch
          /\ peers' = peers
          /\ pool' = pool /\ next_tid' = next_tid
          /\ Len(scheduled'[ev'.peer]) = Len(scheduled[ev'.peer])
          /\ Last(scheduled'[ev'.peer]) =
                IF ~is_picked_peer(peers, ev'.peer)
                THEN [backoff |-> FALSE,
                      interval_ms |-> "shared_mempool_tick_interval_ms"]
                ELSE [backoff |-> peers[ev'.peer].backoff_mode,
                      interval_ms |-> IF peers[ev'.peer].backoff_mode
                                      THEN "shared_mempool_backoff_interval_ms"
                                      ELSE "shared_mempool_tick_interval_ms"]]_vars

\* a tick for a picked peer that lost its connection while in backoff
C30_Witness ==
    /\ ev.type = "broadcast" /\ ev.path = "not_alive"
    /\ is_picked_peer(peers, ev.peer) /\ ~peers[ev.peer].is_alive
    /\ peers[ev.peer].backoff_mode
    /\ ~ev.attempted
    /\ Last(scheduled[ev.peer]).backoff

----------------------------------------------------------------------------
(* Claims on the schedule and the watermark of a peer *)

\* C31: every execution of execute_broadcast for a peer, on every path (not
\* picked, not alive, dropped as stale, empty batch, send failure, send
\* success), schedules exactly one next broadcast for that peer, so that one
\* broadcast is pending per peer; it waits shared_mempool_backoff_interval_ms
\* if the returned next-backoff flag is true and
\* shared_mempool_tick_interval_ms otherwise, and is dispatched with that flag.
C31_OneNextBroadcast ==
    /\ [](\A p \in Peers : Len(scheduled[p]) = 1)
    /\ [][ev'.type = "broadcast" =>
            /\ ev'.path \in {"not_picked", "not_alive", "dropped", "empty",
                              "send_fail", "sent"}
            /\ scheduled'[ev'.peer] =
                  <<[backoff |-> ev'.next_backoff,
                     interval_ms |-> IF ev'.next_backoff
                                     THEN "shared_mempool_backoff_interval_ms"
                                     ELSE "shared_mempool_tick_interval_ms"]>>
            /\ \A q \in Peers \ {ev'.peer} : scheduled'[q] = scheduled[q]]_vars

\* a send failed for a peer in backoff: the next broadcast is a backoff one
C31_Witness ==
    /\ ev.type = "broadcast" /\ ev.path = "send_fail" /\ ev.next_backoff
    /\ scheduled[ev.peer] = <<[backoff |-> TRUE,
                               interval_ms |-> "shared_mempool_backoff_interval_ms"]>>

\* C35: for one peer, two batches in flight never have the same BatchId: a
\* broadcast that is sent, one made only of retried transactions included
\* (batch_id = (t, t)), never takes the BatchId of an earlier batch that is
\* still recorded in sent_batches, and so never overwrites its record.
C35_BatchIdsDistinct ==
    [][(ev'.type = "broadcast" /\ ev'.path = "sent") =>
          ev'.batch.batch_id \notin DOMAIN peers[ev'.peer].sent_batches]_vars

\* C34: a peer's timeline_id never skips a transaction: when a broadcast that
\* was sent advances the peer's timeline_id from t to t', every Ready entry
\* live at the time of the read with timeline id in (t, t'] is in the batch
\* that was transmitted; the truncation to batch_size takes away no fresh
\* transaction that read_timeline returned.
C34_TimelineNeverSkips ==
    [][(ev'.type = "broadcast" /\ ev'.path = "sent") =>
          LET t == peers[ev'.peer].timeline_id
              t2 == peers'[ev'.peer].timeline_id
              fresh == fresh_part(pool, peers[ev'.peer], retry_part(pool, peers[ev'.peer]))
          IN  /\ \A e \in ReadyEntries(pool) :
                    (t < e.tid /\ e.tid <= t2) =>
                        /\ e.tid \in Range(ev'.batch.ids)
                        /\ TxnOf(e) \in Range(ev'.transactions)
              /\ \A i \in 1..Len(fresh.txns) : fresh.txns[i].id \in Range(ev'.batch.ids)]_vars

\* a batch of one retry and one fresh transaction moved the watermark from
\* 1 to 2
C34_Witness ==
    /\ ev.type = "broadcast" /\ ev.path = "sent"
    /\ ev.batch.batch_id = BatchId(1, 2)
    /\ ev.batch.ids = <<1, 2>>
    /\ peers[ev.peer].timeline_id = 2

\* C36: the lookup of the earliest timeline id never fails: whenever
\* broadcast_single_peer would assemble a non-empty batch for a peer (live
\* retries or fresh transactions), read_timeline(0, 1) on the same pool
\* returns an entry, so no broadcast ends in the 'empty timeline' panic; this
\* includes a pool whose only Ready entry has the first timeline id.
C36_EarliestLookupSucceeds ==
    /\ \A p \in Peers :
          LET retry_txns == retry_part(pool, peers[p])
          IN  (retry_txns # <<>> \/ fresh_part(pool, peers[p], retry_txns).txns # <<>>)
                  => read_timeline(pool, 0, 1).txns # <<>>
    /\ ~(ev.type = "broadcast" /\ ev.path = "panic")

\* a batch went out of a pool whose only Ready entry has the first id
C36_Witness ==
    /\ ev.type = "broadcast" /\ ev.path = "sent"
    /\ Cardinality(ReadyEntries(pool)) = 1
    /\ \A e \in ReadyEntries(pool) : e.tid = FirstTimelineId
    /\ ev.batch.ids = <<FirstTimelineId>>

\* C37: a peer's timeline_id never decreases, whatever the step (broadcast,
\* ACK, transport failure, commit, rejection, GC), and every recorded
\* BatchId (start, end) has start <= end.
C37_WatermarkMonotone ==
    /\ [][\A p \in Peers : peers'[p].timeline_id >= peers[p].timeline_id]_vars
    /\ [](\A p \in Peers : \A b \in DOMAIN peers[p].sent_batches : b[1] <= b[2])

\* a batch of retries alone was recorded as (2, 2) with the watermark at 2
C37_Witness ==
    /\ ev.type = "broadcast" /\ ev.path = "sent"
    /\ ev.batch.batch_id = BatchId(2, 2)
    /\ BatchId(2, 2) \in DOMAIN peers[ev.peer].sent_batches
    /\ peers[ev.peer].timeline_id = 2

----------------------------------------------------------------------------
(* Claims on gossip over time *)

LiveTid(i) == \E e \in ReadyEntries(pool) : e.tid = i

\* C38: under fair scheduling of the peer's broadcast and sends that
\* eventually succeed, every transaction that becomes Ready and stays live is
\* eventually transmitted to every peer that stays alive and picked (the
\* peer's watermark reaches its timeline id), in backoff mode and after ACKs
\* that request retries as well.
C38_GossipLiveness ==
    \A p \in Peers : \A i \in 1..MaxTid :
        LiveTid(i) ~> (peers[p].timeline_id >= i \/ ~LiveTid(i))

----------------------------------------------------------------------------
(* Claims on the gRPC client *)

\* C40: a synchronous call of the gRPC client is repeated only after a gRPC
\* RpcFailure with status Unavailable, at most MAX_GRPC_RETRY_COUNT times
\* (one retry, two attempts), and the retry loop ends: need_to_retry is
\* asked a bounded number of times per call.
C40_GrpcRetryBound ==
    /\ [][(client'.pc = "loop" /\ client.pc = "loop") =>
             client.resp = "RpcFailure_Unavailable"]_vars
    /\ [](client.attempts <= 1 + MAX_GRPC_RETRY_COUNT)
    /\ [](client.try_cnt <= 1 + MAX_GRPC_RETRY_COUNT)

----------------------------------------------------------------------------
(* Claims on the two locks *)

\* the task is inside the for loop of its batch: some, not all, of its
\* transactions went through add_txn
MidBatch(t) ==
    /\ t \in InFlight
    /\ tasks.at[t].kind = "incoming_transactions"
    /\ 0 < tasks.at[t].added /\ tasks.at[t].added < Len(tasks.at[t].kept)

\* the steps that read or change the pool
PoolSteps == {"add_txn", "get_block", "commit_txns", "reject_txns", "read_timeline"}

\* C32: the insertions of one call of process_incoming_transactions happen
\* in one critical section of the pool lock: from the first add_txn of a
\* batch to its last the task holds the lock, and no GetBlock, commit,
\* reject, broadcast timeline read or other ingress task reads or changes the pool
\* in between; whatever changes the pool holds the lock, so a GetBlock works
\* on the pool as the finished critical sections left it.
C32_BatchInOneCriticalSection ==
    /\ [](\A t \in IncomingTasks : MidBatch(t) => tasks.lock = t)
    /\ [][\A t \in InFlight :
            (/\ instr(t) \in PoolSteps
             /\ (t \notin DOMAIN tasks'.at \/ tasks'.at[t] # tasks.at[t]))
            => /\ tasks.lock = t
               /\ \A u \in IncomingTasks \ {t} : ~MidBatch(u)]_vars
    /\ [][pool' # pool => tasks.lock \in InFlight /\ instr(tasks.lock) \in PoolSteps]_vars

\* the peer's batch has one of its two transactions in the pool while a
\* GetBlock request waits for the lock
C32_Witness ==
    /\ MidBatch("peer_txns") /\ tasks.lock = "peer_txns"
    /\ pool # {}
    /\ "get_block" \in InFlight /\ instr("get_block") = "lock"

\* task t has taken the validator's read lock and validate_transaction has
\* not returned
ValidationInProgress(t) ==
    /\ t \in InFlight
    /\ tasks.at[t].kind = "incoming_transactions"
    /\ instr(t) = "validate_transaction"

\* C33: the restart of the validator is exclusive: while restart runs no
\* validate_transaction is in progress, and the writer of the validator's
\* lock excludes its readers; validations of different ingress tasks overlap
\* each other, not a restart; so every validation is answered by the
\* validator as it was before a restart or as it is after it.
C33_RestartExclusive ==
    /\ [](RestartInProgress => \A t \in IncomingTasks : ~ValidationInProgress(t))
    /\ [](tasks.validator_lock.writer # "free" => tasks.validator_lock.readers = {})
    /\ [](\A t \in IncomingTasks :
            ValidationInProgress(t) <=> t \in tasks.validator_lock.readers)
    /\ []((ev.type = "task_step" /\ ev.instr = "validate_transaction")
            => ~ev.during_restart /\ ev.validated_by.config \in 0..MaxConfig)

\* two validations overlap, after a restart that changed the validator, while
\* the next restart waits for the write lock
C33_Witness ==
    /\ ValidationInProgress("client_txn") /\ ValidationInProgress("peer_txns")
    /\ validator # InitValidator

====
